---- MODULE Spec2Model ----
(***************************************************************************)
(* A model of rhythmbox.py: the Sample PCM buffer with its lock-guarded    *)
(* in-place operations, and the Mixer that validates rhythm patterns and   *)
(* renders them tick by tick into one Sample.                              *)
(*                                                                         *)
(* Representation.  A buffer (Sample.__frames) is a sequence of signed     *)
(* sample values; its length in bytes is Len(frames) * sampwidth.  The     *)
(* value None of the buffer is the flag `nobuf`.  The seconds handed to    *)
(* the operations and the time stamps of the Mixer are exact rationals     *)
(* [n, d] (d > 0), with int(x) the truncation of the exact product; the    *)
(* readings duration_float and frame_idx_float compute in binary64 as      *)
(* Python does.  Where the identity of objects matters (dup), a Sample     *)
(* object refers to a buffer object in a store, and a buffer object is     *)
(* immutable (bytes) or grows in place (bytearray).                        *)
(***************************************************************************)
EXTENDS Integers, Sequences, FiniteSets, TLC

\* ------------------------------------------------------------------------
\* Arithmetic helpers
\* ------------------------------------------------------------------------

Abs(x) == IF x < 0 THEN -x ELSE x

Min2(a, b) == IF a < b THEN a ELSE b

Max2(a, b) == IF a > b THEN a ELSE b

RECURSIVE Gcd(_, _)
Gcd(a, b) == IF b = 0 THEN a ELSE Gcd(b, a % b)

\* int(): truncation toward zero of n/d, d > 0
Trunc(n, d) == IF n >= 0 THEN n \div d ELSE -((-n) \div d)

MaxInt == 2147483647

\* floor(a*b/m) and the remainder for 0 <= a, b < m, computed without
\* forming a product that does not fit TLC's 32-bit integers
RECURSIVE MulDivSmall(_, _, _)
MulDivSmall(a, b, m) ==
    IF b = 0 \/ a <= MaxInt \div b
    THEN [q |-> (a * b) \div m, r |-> (a * b) % m]
    ELSE LET h  == MulDivSmall(a, b \div 2, m)
             c2 == IF h.r >= m - h.r THEN 1 ELSE 0
             r2 == IF c2 = 1 THEN h.r - (m - h.r) ELSE h.r + h.r
             c3 == IF b % 2 = 1 /\ a >= m - r2 THEN 1 ELSE 0
         IN  [q |-> 2 * h.q + c2 + c3,
              r |-> IF b % 2 = 0 THEN r2
                    ELSE IF c3 = 1 THEN a - (m - r2) ELSE r2 + a]

\* x * y does not fit (x, y >= 0)
MulOvf(x, y) == x # 0 /\ y > MaxInt \div x

\* floor(a*n/d) and the remainder for a = ah*d + al and n = nh*d + nl, lo the
\* quotient and remainder of al*nl/d:
\* a*n/d = ah*nh*d + ah*nl + al*nh + al*nl/d; ovf is set when the quotient
\* exceeds MaxInt
MulDivJoin(ah, al, nh, nl, d, lo) ==
    IF \/ MulOvf(ah, nh)
       \/ MulOvf(ah * nh, d)
       \/ MulOvf(ah, nl)
       \/ ah * nl > MaxInt - ah * nh * d
       \/ MulOvf(al, nh)
       \/ al * nh > MaxInt - ah * nh * d - ah * nl
       \/ lo.q > MaxInt - ah * nh * d - ah * nl - al * nh
    THEN [q |-> MaxInt, r |-> 0, ovf |-> TRUE]
    ELSE [q |-> ah * nh * d + ah * nl + al * nh + lo.q, r |-> lo.r, ovf |-> FALSE]

\* floor(a*n/d) and the remainder for a, n >= 0, d > 0
MulDivMod(a, n, d) ==
    MulDivJoin(a \div d, a % d, n \div d, n % d, d, MulDivSmall(a % d, n % d, d))

\* rationals
Rat(n, d) == [n |-> n, d |-> d]

RatNorm(n, d) == LET g == Gcd(Abs(n), d) IN [n |-> n \div g, d |-> d \div g]

RatAdd(x, y) ==
    LET g == Gcd(x.d, y.d)
    IN  RatNorm(x.n * (y.d \div g) + y.n * (x.d \div g), (x.d \div g) * y.d)

RatSub(x, y) == RatAdd(x, [n |-> -y.n, d |-> y.d])

RatLess(x, y) == RatSub(x, y).n < 0

\* ------------------------------------------------------------------------
\* Python sequence operations on buffers
\* ------------------------------------------------------------------------

Zeros(k) == [i \in 1..k |-> 0]

\* seq[lo:hi] with Python's negative indices and clamping (0-based indices)
PySlice(f, lo, hi) ==
    LET n  == Len(f)
        l0 == IF lo < 0 THEN Max2(lo + n, 0) ELSE Min2(lo, n)
        h0 == IF hi < 0 THEN Max2(hi + n, 0) ELSE Min2(hi, n)
    IN  IF h0 <= l0 THEN << >> ELSE SubSeq(f, l0 + 1, h0)

\* ------------------------------------------------------------------------
\* audioop
\* ------------------------------------------------------------------------

Pow256(k) == CASE k = 0 -> 1 [] k = 1 -> 256 [] k = 2 -> 65536 [] k = 3 -> 16777216

maxval(width) == CASE width = 1 -> 127 [] width = 2 -> 32767
                   [] width = 3 -> 8388607 [] width = 4 -> 2147483647

minval(width) == -maxval(width) - 1

fbound(v, width) ==
    IF v > maxval(width) THEN maxval(width)
    ELSE IF v < minval(width) THEN minval(width) ELSE v

\* val1 + val2 clipped to the sample range
AddClip(a, b, width) ==
    IF a > 0 /\ b > maxval(width) - a THEN maxval(width)
    ELSE IF a < 0 /\ b < minval(width) - a THEN minval(width)
    ELSE fbound(a + b, width)

\* audioop.add: [err, frames]; the fragments must have the same length
audioop_add(f1, f2, width) ==
    IF Len(f1) # Len(f2)
    THEN [err |-> "audioop.error", frames |-> << >>]
    ELSE [err |-> "", frames |-> [i \in 1..Len(f1) |-> AddClip(f1[i], f2[i], width)]]

\* twice the quotient and remainder h of a division by d
MulDivDouble(h, c, d) ==
    IF h.ovf \/ h.q > (MaxInt - c) \div 2
    THEN [q |-> MaxInt, r |-> 0, ovf |-> TRUE]
    ELSE [q |-> 2 * h.q + c,
          r |-> IF c = 1 THEN h.r - (d - h.r) ELSE h.r + h.r,
          ovf |-> FALSE]

\* floor of the signed quotient, clipped to the sample range
MulClipFloor(neg, qr, width) ==
    IF qr.ovf THEN (IF neg THEN minval(width) ELSE maxval(width))
    ELSE IF ~neg THEN fbound(qr.q, width)
    ELSE IF qr.r = 0 THEN fbound(-qr.q, width)
    ELSE fbound(-qr.q - 1, width)

\* |v| * |factor| for |v| = 2^31, which does not fit TLC's 32-bit integers:
\* the quotient h for 2^30 is doubled
MulClipFull(h, d) == MulDivDouble(h, IF h.r >= d - h.r THEN 1 ELSE 0, d)

\* floor(v * factor) clipped to the sample range, the factor a rational
MulClip(v, factor, width) ==
    MulClipFloor((v < 0) # (factor.n < 0),
                 IF v < -MaxInt
                 THEN MulClipFull(MulDivMod(1073741824, Abs(factor.n), factor.d), factor.d)
                 ELSE MulDivMod(Abs(v), Abs(factor.n), factor.d),
                 width)

audioop_mul(f, width, factor) == [i \in 1..Len(f) |-> MulClip(f[i], factor, width)]

\* audioop.max: the largest absolute sample value; 2^31 is reported as
\* MaxInt together with full = TRUE
RECURSIVE audioop_max(_, _)
audioop_max(f, width) ==
    IF f = << >> THEN [v |-> 0, full |-> FALSE]
    ELSE LET t == audioop_max(Tail(f), width)
         IN  IF Head(f) < -MaxInt THEN [v |-> MaxInt, full |-> TRUE]
             ELSE [v |-> Max2(Abs(Head(f)), t.v), full |-> t.full]

\* floor(v / 2^(8k))
ShiftDown(v, k) == v \div Pow256(k)

audioop_lin2lin(f, width, width2) ==
    [i \in 1..Len(f) |->
        IF width2 >= width THEN f[i] * Pow256(width2 - width)
        ELSE ShiftDown(f[i], width - width2)]

audioop_tostereo(f, width, lfactor, rfactor) ==
    [i \in 1..(2 * Len(f)) |->
        IF i % 2 = 1 THEN MulClip(f[(i + 1) \div 2], lfactor, width)
        ELSE MulClip(f[i \div 2], rfactor, width)]

\* floor(vh*n/d) and the remainder in 0..d-1 from h, those of |vh|*n/d
SFloor(vh, h, d) ==
    [q |-> IF vh >= 0 THEN h.q ELSE IF h.r = 0 THEN -h.q ELSE -h.q - 1,
     r |-> IF vh >= 0 \/ h.r = 0 THEN h.r ELSE d - h.r]

\* quotient and remainder of (2*vh + odd)*n/d from hf, those of vh*n/d, and
\* r2, the remainder of 2*hf.r by d
SMulDivJoin(odd, n, d, hf, r2) ==
    [q |-> 2 * hf.q + (IF hf.r >= d - hf.r THEN 1 ELSE 0) + odd * (n \div d)
           + (IF odd * (n % d) >= d - r2 THEN 1 ELSE 0),
     r |-> IF odd * (n % d) >= d - r2 THEN odd * (n % d) - (d - r2)
           ELSE r2 + odd * (n % d)]

SMulDivHalf(odd, n, d, hf) ==
    SMulDivJoin(odd, n, d, hf,
                IF hf.r >= d - hf.r THEN hf.r - (d - hf.r) ELSE hf.r + hf.r)

\* floor(v*n/d) and the remainder in 0..d-1 for any 32-bit v (also -2^31),
\* n >= 0, d > 0: v = 2*(v \div 2) + (v % 2)
SMulDiv(v, n, d) ==
    SMulDivHalf(v % 2, n, d, SFloor(v \div 2, MulDivMod(Abs(v \div 2), n, d), d))

\* (int)(a + b) for the quotients and remainders a, b by outrate
ratecv_sum(a, b, carry, outrate) ==
    IF (a.q + carry) + b.q < 0
       /\ (IF carry = 1 THEN a.r - (outrate - b.r) ELSE a.r + b.r) # 0
    THEN (a.q + carry) + b.q + 1
    ELSE (a.q + carry) + b.q

ratecv_carry(a, b, outrate) ==
    ratecv_sum(a, b, IF a.r >= outrate - b.r THEN 1 ELSE 0, outrate)

\* (int)((prev * d + cur * (outrate - d)) / outrate), 0 <= d < outrate,
\* prev and cur 32-bit values
ratecv_interpolate(prev, cur, d, outrate) ==
    ratecv_carry(SMulDiv(prev, d, outrate), SMulDiv(cur, outrate - d, outrate), outrate)

\* audioop.ratecv with state None and the default weights (1, 0): linear
\* interpolation between the previous and the current input frame.
\* pos input frames are consumed; prev and cur hold one value per channel.
RECURSIVE ratecv_loop(_, _, _, _, _, _, _, _, _, _)
ratecv_loop(f, width, nchannels, inrate, outrate, pos, d, prev, cur, out) ==
    IF d < 0
    THEN IF pos * nchannels = Len(f) THEN out
         ELSE ratecv_loop(f, width, nchannels, inrate, outrate, pos + 1, d + outrate,
                          cur, [c \in 1..nchannels |-> f[pos * nchannels + c]], out)
    ELSE ratecv_loop(f, width, nchannels, inrate, outrate, pos, d - inrate, prev, cur,
                     out \o [c \in 1..nchannels |->
                        ShiftDown(ratecv_interpolate(prev[c] * Pow256(4 - width),
                                                     cur[c] * Pow256(4 - width),
                                                     d, outrate),
                                  4 - width)])

audioop_ratecv(f, width, nchannels, inrate, outrate) ==
    IF Len(f) % nchannels # 0
    THEN [err |-> "audioop.error", frames |-> << >>]
    ELSE LET g == Gcd(inrate, outrate)
         IN  [err |-> "",
              frames |-> ratecv_loop(f, width, nchannels, inrate \div g, outrate \div g,
                                     0, -(outrate \div g),
                                     [c \in 1..nchannels |-> 0],
                                     [c \in 1..nchannels |-> 0], << >>)]

\* ------------------------------------------------------------------------
\* class Sample
\* ------------------------------------------------------------------------

norm_samplerate == 44100

norm_nchannels == 2

norm_sampwidth == 2

\* Sample(frames): a sample in the normal format; nobuf is __frames = None
Sample(frames) ==
    [frames |-> frames, nobuf |-> FALSE, samplerate |-> norm_samplerate,
     nchannels |-> norm_nchannels, sampwidth |-> norm_sampwidth, locked |-> FALSE]

\* the result of a call: err = "" when the call returned
Ok(s) == [err |-> "", s |-> s]

Raise(e, s) == [err |-> e, s |-> s]

\* len(self.__frames), in bytes
BLen(s) == Len(s.frames) * s.sampwidth

\* self.__frames[lo:hi], lo and hi byte offsets that are multiples of sampwidth
ByteSlice(s, lo, hi) == PySlice(s.frames, lo \div s.sampwidth, hi \div s.sampwidth)

dup(s) == [s EXCEPT !.locked = FALSE]

lock(s) == [s EXCEPT !.locked = TRUE]

duration(s) == RatNorm(BLen(s), s.samplerate * s.sampwidth * s.nchannels)

frame_idx(s, seconds) ==
    s.nchannels * s.sampwidth * Trunc(s.samplerate * seconds.n, seconds.d)

\* a WAV file as wave.open reads it: the header's frame rate, channel count
\* and sample width in bytes, and the frames readframes returns
WavFile(frames, framerate, nchannels, sampwidth) ==
    [frames |-> frames, framerate |-> framerate, nchannels |-> nchannels,
     sampwidth |-> sampwidth]

\* load_wav as it would be if every sample width were accepted
load_wav_any_width(s, w) ==
    IF s.locked THEN Raise("AssertionError", s)
    ELSE IF w.sampwidth = 0 \/ w.nchannels = 0 THEN Raise("wave.Error", s)
    ELSE IF ~(1 <= w.nchannels /\ w.nchannels <= 2) THEN Raise("IOError", s)
    ELSE Ok([s EXCEPT !.frames = w.frames, !.nobuf = FALSE, !.nchannels = w.nchannels,
                      !.samplerate = w.framerate, !.sampwidth = w.sampwidth])

\* wave.open itself raises wave.Error on a header without sample width or
\* without channels
load_wav(s, w) ==
    IF s.locked THEN Raise("AssertionError", s)
    ELSE IF w.sampwidth = 0 \/ w.nchannels = 0 THEN Raise("wave.Error", s)
    ELSE IF ~(2 <= w.sampwidth /\ w.sampwidth <= 4) THEN Raise("IOError", s)
    ELSE IF ~(1 <= w.nchannels /\ w.nchannels <= 2) THEN Raise("IOError", s)
    ELSE Ok([s EXCEPT !.frames = w.frames, !.nobuf = FALSE, !.nchannels = w.nchannels,
                      !.samplerate = w.framerate, !.sampwidth = w.sampwidth])

\* Sample(wave_file=file): locked = False, then load_wav
Sample_from_wav(w) == load_wav([Sample(<< >>) EXCEPT !.locked = FALSE], w)

\* the conversion to stereo at the end of normalize
normalize_channels(s) ==
    IF s.nchannels = 1
    THEN [s EXCEPT !.frames = audioop_tostereo(s.frames, s.sampwidth, Rat(1, 1), Rat(1, 1)),
                   !.nchannels = 2]
    ELSE s

\* a conversion of the sample width that does not record the new width
normalize_width_unrecorded(s) ==
    IF s.sampwidth # norm_sampwidth
    THEN [s EXCEPT !.frames = audioop_lin2lin(s.frames, s.sampwidth, norm_sampwidth)]
    ELSE s

\* the conversion of the sample width in normalize
normalize_width(s) ==
    IF s.sampwidth # norm_sampwidth
    THEN [s EXCEPT !.frames = audioop_lin2lin(s.frames, s.sampwidth, norm_sampwidth),
                   !.sampwidth = norm_sampwidth]
    ELSE s

\* normalize from the result cv of audioop.ratecv on
normalize_rate(s, cv) ==
    IF cv.err # "" THEN Raise(cv.err, s)
    ELSE Ok(normalize_channels(normalize_width(
                [s EXCEPT !.frames = cv.frames, !.samplerate = norm_samplerate])))

normalize(s) ==
    IF s.locked THEN Raise("AssertionError", s)
    ELSE IF s.nobuf /\ (s.samplerate # norm_samplerate \/ s.sampwidth # norm_sampwidth
                        \/ s.nchannels = 1)
    THEN Raise("TypeError", s)
    ELSE IF s.samplerate # norm_samplerate
    THEN normalize_rate(s, audioop_ratecv(s.frames, s.sampwidth, s.nchannels,
                                          s.samplerate, norm_samplerate))
    ELSE Ok(normalize_channels(normalize_width(s)))

\* [err, frames]
get_32bit_frames(s, scale_amplitude) ==
    IF s.sampwidth = 4 THEN [err |-> "", frames |-> s.frames]
    ELSE IF s.nobuf THEN [err |-> "TypeError", frames |-> << >>]
    ELSE LET frames == audioop_lin2lin(s.frames, s.sampwidth, 4)
         IN  [err |-> "",
              frames |-> IF ~scale_amplitude
                         THEN audioop_mul(frames, 4, Rat(1, Pow256(Abs(s.sampwidth - 4))))
                         ELSE frames]

\* make_32bit from the result r of get_32bit_frames on
make_32bit_set(s, r) ==
    IF r.err # "" THEN Raise(r.err, s)
    ELSE Ok([s EXCEPT !.frames = r.frames, !.sampwidth = 4])

make_32bit(s, scale_amplitude) ==
    IF s.locked THEN Raise("AssertionError", s)
    ELSE make_32bit_set(s, get_32bit_frames(s, scale_amplitude))

\* 2 ** (8 * sampwidth - 1) - 2
max_target(width) == maxval(width) - 1

\* amplify_max from the result max_amp of audioop.max on
amplify_max_by(s, max_amp) ==
    IF max_amp.v > 0
    THEN Ok([s EXCEPT !.frames =
                audioop_mul(s.frames, s.sampwidth,
                            IF max_amp.full THEN Rat(1073741823, 1073741824)
                            ELSE RatNorm(max_target(s.sampwidth), max_amp.v))])
    ELSE Ok(s)

amplify_max(s) ==
    IF s.locked THEN Raise("AssertionError", s)
    ELSE IF s.nobuf THEN Raise("TypeError", s)
    ELSE amplify_max_by(s, audioop_max(s.frames, s.sampwidth))

\* make_16bit from the result r1 of amplify_max on
make_16bit_convert(r1) ==
    IF r1.err # "" THEN r1
    ELSE IF r1.s.sampwidth > 2
    THEN IF r1.s.nobuf THEN Raise("TypeError", r1.s)
         ELSE Ok([r1.s EXCEPT !.frames = audioop_lin2lin(r1.s.frames, r1.s.sampwidth, 2),
                              !.sampwidth = 2])
    ELSE r1

make_16bit(s, maximize_amplitude) ==
    IF s.locked \/ s.sampwidth < 2 THEN Raise("AssertionError", s)
    ELSE make_16bit_convert(IF maximize_amplitude THEN amplify_max(s) ELSE Ok(s))

\* amplify without the guard on the lock flag
amplify_unguarded(s, factor) ==
    IF s.nobuf THEN Raise("TypeError", s)
    ELSE Ok([s EXCEPT !.frames = audioop_mul(s.frames, s.sampwidth, factor)])

amplify(s, factor) ==
    IF s.locked THEN Raise("AssertionError", s)
    ELSE IF s.nobuf THEN Raise("TypeError", s)
    ELSE Ok([s EXCEPT !.frames = audioop_mul(s.frames, s.sampwidth, factor)])

cut(s, start_seconds, end_seconds) ==
    IF s.locked \/ ~RatLess(start_seconds, end_seconds) THEN Raise("AssertionError", s)
    ELSE IF s.nobuf THEN Raise("TypeError", s)
    ELSE IF frame_idx(s, end_seconds) # BLen(s)
    THEN Ok([s EXCEPT !.frames = ByteSlice(s, frame_idx(s, start_seconds),
                                           frame_idx(s, end_seconds))])
    ELSE Ok(s)

append(s, seconds) ==
    IF s.locked THEN Raise("AssertionError", s)
    ELSE IF s.nobuf THEN Raise("TypeError", s)
    ELSE Ok([s EXCEPT !.frames = s.frames \o Zeros(frame_idx(s, seconds) \div s.sampwidth)])

\* other.__frames[:other.frame_idx(other_seconds)] if other_seconds else
\* other.__frames; other_seconds = 0 also stands for None
other_frames_of(other, other_seconds) ==
    IF other_seconds.n # 0
    THEN ByteSlice(other, 0, frame_idx(other, other_seconds))
    ELSE other.frames

\* mix from the result sum of audioop.add on
mix_set(s, sum) ==
    IF sum.err # "" THEN Raise(sum.err, s)
    ELSE Ok([s EXCEPT !.frames = sum.frames])

\* mix as it would be if pad_shortest were ignored and nothing were padded
mix_frames_unpadded(s, frames1, frames2, pad_shortest) ==
    mix_set(s, audioop_add(frames1, frames2, s.sampwidth))

\* the padding of the shortest of frames1 and frames2, and their sum
mix_frames(s, frames1, frames2, pad_shortest) ==
    mix_set(s, audioop_add(IF pad_shortest /\ Len(frames1) < Len(frames2)
                           THEN frames1 \o Zeros(Len(frames2) - Len(frames1))
                           ELSE frames1,
                           IF pad_shortest /\ Len(frames2) < Len(frames1)
                           THEN frames2 \o Zeros(Len(frames1) - Len(frames2))
                           ELSE frames2,
                           s.sampwidth))

mix(s, other, other_seconds, pad_shortest) ==
    IF \/ s.locked
       \/ s.sampwidth # other.sampwidth
       \/ s.samplerate # other.samplerate
       \/ s.nchannels # other.nchannels
    THEN Raise("AssertionError", s)
    ELSE IF s.nobuf \/ other.nobuf THEN Raise("TypeError", s)
    ELSE mix_frames(s, s.frames, other_frames_of(other, other_seconds), pad_shortest)

mix_join_frames(pre, mid, post) ==
    IF post # << >> THEN pre \o mid \o post
    ELSE IF mid # << >> THEN pre \o mid
    ELSE pre

\* the buffer after _mix_grow_if_needed
mix_grow_if_needed(s, start_frame_idx, other_length) ==
    IF start_frame_idx + other_length > BLen(s)
    THEN [s EXCEPT !.frames =
            s.frames \o Zeros((start_frame_idx + other_length - BLen(s)) \div s.sampwidth)]
    ELSE s

\* the three slices of the grown buffer g
mix_split_grown(g, other_frames_length, start_frame_idx) ==
    [pre    |-> ByteSlice(g, 0, start_frame_idx),
     to_mix |-> ByteSlice(g, start_frame_idx, start_frame_idx + other_frames_length),
     post   |-> ByteSlice(g, start_frame_idx + other_frames_length, BLen(g))]

mix_split_frames(s, other_frames_length, start_frame_idx) ==
    mix_split_grown(mix_grow_if_needed(s, start_frame_idx, other_frames_length),
                    other_frames_length, start_frame_idx)

\* mix_at from the result `mixed` of audioop.add on; self.__frames is None
\* when audioop.add raises
mix_at_join(s, parts, mixed) ==
    IF mixed.err # ""
    THEN Raise(mixed.err, [s EXCEPT !.frames = << >>, !.nobuf = TRUE])
    ELSE Ok([s EXCEPT !.frames = mix_join_frames(parts.pre, mixed.frames, parts.post)])

mix_at_add(s, parts, other_frames) ==
    mix_at_join(s, parts, audioop_add(parts.to_mix, other_frames, s.sampwidth))

mix_at_frames(s, start_frame_idx, other_frames) ==
    mix_at_add(s, mix_split_frames(s, Len(other_frames) * s.sampwidth, start_frame_idx),
               other_frames)

mix_at(s, seconds, other, other_seconds) ==
    IF \/ s.locked
       \/ s.sampwidth # other.sampwidth
       \/ s.samplerate # other.samplerate
       \/ s.nchannels # other.nchannels
    THEN Raise("AssertionError", s)
    ELSE IF s.nobuf \/ other.nobuf THEN Raise("TypeError", s)
    ELSE mix_at_frames(s, frame_idx(s, seconds), other_frames_of(other, other_seconds))

\* ------------------------------------------------------------------------
\* class Mixer
\*
\* A pattern (an insertion-ordered dict) is a sequence of entries
\* [instrument, bars], bars a sequence of one-character strings.  The
\* instrument table maps a name to the identity of a Sample object, an index
\* into the heap.
\* ------------------------------------------------------------------------

\* the order of instrument names under sorted()
InstrumentNames == <<"a", "b", "c">>

NameRank(name) == CHOOSE k \in 1..Len(InstrumentNames) : InstrumentNames[k] = name

\* the loop over p.items() in Mixer.__init__, from entry k on
RECURSIVE init_check_bars(_, _, _, _, _)
init_check_bars(p, k, bar_length, ticks, instruments) ==
    IF k > Len(p) THEN ""
    ELSE IF p[k].instrument \notin DOMAIN instruments
    THEN "ValueError: instrument not defined"
    ELSE IF Len(p[k].bars) % ticks # 0
    THEN "ValueError: bar length must be multiple of the number of ticks"
    ELSE IF 0 < bar_length /\ bar_length # Len(p[k].bars)
    THEN "ValueError: all bars must be of equal length in the same pattern"
    ELSE init_check_bars(p, k + 1, Len(p[k].bars), ticks, instruments)

\* the loop over the patterns in Mixer.__init__, from pattern n on
RECURSIVE init_check_patterns(_, _, _, _)
init_check_patterns(patterns, n, ticks, instruments) ==
    IF n > Len(patterns) THEN ""
    ELSE LET e == init_check_bars(patterns[n], 1, 0, ticks, instruments)
         IN  IF e # "" THEN e
             ELSE init_check_patterns(patterns, n + 1, ticks, instruments)

\* Mixer(patterns, bpm, ticks, instruments): [err, mixer]
Mixer_init(patterns, bpm, ticks, instruments) ==
    [err   |-> init_check_patterns(patterns, 1, ticks, instruments),
     mixer |-> [patterns |-> patterns, instruments |-> instruments,
                bpm |-> bpm, ticks |-> ticks]]

\* a time stamp that is one tick late
timestamp_of_late(m, index) == RatNorm(60 * (index + 1), m.bpm * m.ticks)

\* time_per_index * index, with time_per_index = 60.0 / bpm / ticks
timestamp_of(m, index) == RatNorm(60 * index, m.bpm * m.ticks)

\* bars[i] not in ". "
is_trigger(ch) == ch # "." /\ ch # " "

\* the loop over the bars of `pattern` at tick i, from entry k on:
\* [err, triggers], a trigger a pair [instrument, sample]
RECURSIVE collect_triggers(_, _, _, _)
collect_triggers(m, pattern, i, k) ==
    IF k > Len(pattern) THEN [err |-> "", triggers |-> << >>]
    ELSE IF i >= Len(pattern[k].bars) THEN [err |-> "IndexError", triggers |-> << >>]
    ELSE IF ~is_trigger(pattern[k].bars[i + 1])
    THEN collect_triggers(m, pattern, i, k + 1)
    ELSE IF pattern[k].instrument \notin DOMAIN m.instruments
    THEN [err |-> "KeyError", triggers |-> << >>]
    ELSE LET rest == collect_triggers(m, pattern, i, k + 1)
         IN  IF rest.err # "" THEN rest
             ELSE [err |-> "",
                   triggers |-> <<[instrument |-> pattern[k].instrument,
                                   sample |-> m.instruments[pattern[k].instrument]]>>
                                \o rest.triggers]

\* the end of the loop body of mixed_triggers() at tick i, t the result of
\* collecting the triggers of the tick; `skip` is the generator resumed at
\* the next tick
mixed_triggers_tick(m, p, i, index, t, skip) ==
    IF t.err # ""
    THEN [kind |-> "raise", err |-> t.err, p |-> p, i |-> i, index |-> index,
          timestamp |-> Rat(0, 1), triggers |-> << >>]
    ELSE IF t.triggers # << >>
    THEN [kind |-> "yield", err |-> "", p |-> p, i |-> i + 1, index |-> index + 1,
          timestamp |-> timestamp_of(m, index), triggers |-> t.triggers]
    ELSE skip

\* mixed_triggers() resumed with p patterns finished, at tick i of the next
\* pattern and global tick number index, up to its next yield:
\* kind is "yield", "stop" (the generator is exhausted) or "raise";
\* num_triggers = len(pattern[0][1]) raises IndexError on an empty pattern
RECURSIVE mixed_triggers_next(_, _, _, _)
mixed_triggers_next(m, p, i, index) ==
    IF p >= Len(m.patterns)
    THEN [kind |-> "stop", err |-> "", p |-> p, i |-> i, index |-> index,
          timestamp |-> Rat(0, 1), triggers |-> << >>]
    ELSE IF m.patterns[p + 1] = << >>
    THEN [kind |-> "raise", err |-> "IndexError", p |-> p, i |-> i, index |-> index,
          timestamp |-> Rat(0, 1), triggers |-> << >>]
    ELSE IF i >= Len(m.patterns[p + 1][1].bars)
    THEN mixed_triggers_next(m, p + 1, 0, index)
    ELSE mixed_triggers_tick(m, p, i, index,
                             collect_triggers(m, m.patterns[p + 1], i, 1),
                             mixed_triggers_next(m, p, i + 1, index + 1))

\* sorted(names)
RECURSIVE sorted_insert(_, _)
sorted_insert(name, names) ==
    IF names = << >> THEN <<name>>
    ELSE IF NameRank(name) < NameRank(Head(names)) THEN <<name>> \o names
    ELSE <<Head(names)>> \o sorted_insert(name, Tail(names))

RECURSIVE sorted(_)
sorted(names) ==
    IF names = << >> THEN << >> ELSE sorted_insert(Head(names), sorted(Tail(names)))

trigger_names(triggers) == [k \in 1..Len(triggers) |-> triggers[k].instrument]

\* the cache key in trigger order, without sorted()
instruments_key_unsorted(triggers) == trigger_names(triggers)

\* tuple(sorted(instrument for instrument, _ in triggers))
instruments_key(triggers) == sorted(trigger_names(triggers))

\* len(triggers) >= 1: also a lone trigger is mixed
needs_mix_always(triggers) == Len(triggers) >= 1

\* len(triggers) > 1
needs_mix(triggers) == Len(triggers) > 1

\* max((s for _, s in triggers), key=lambda s: s.duration): the first of the
\* longest samples among triggers[k..], best the longest so far
RECURSIVE longest_sample(_, _, _, _)
longest_sample(triggers, k, best, h) ==
    IF k > Len(triggers) THEN best
    ELSE IF RatLess(duration(h[best]), duration(h[triggers[k].sample]))
    THEN longest_sample(triggers, k + 1, triggers[k].sample, h)
    ELSE longest_sample(triggers, k + 1, best, h)

\* the loop that mixes the other triggered samples into `mixed`: [err, s];
\* r is the result of the last mixed.mix(sample)
RECURSIVE mix_triggers(_, _, _, _, _)
mix_triggers(r, triggers, k, longest, h) ==
    IF r.err # "" \/ k > Len(triggers) THEN r
    ELSE IF triggers[k].sample = longest
    THEN mix_triggers(r, triggers, k + 1, longest, h)
    ELSE mix_triggers(mix(r.s, h[triggers[k].sample], Rat(0, 1), TRUE),
                      triggers, k + 1, longest, h)

\* mixed.lock(), mix_cache[instruments_key] = mixed, and the yield; r is the
\* result of mixing the triggered samples
mixed_samples_cache(key, r, mix_cache, h) ==
    IF r.err # ""
    THEN [err |-> r.err, sample |-> 0, heap |-> h,
          mix_cache |-> mix_cache, mixed_key |-> key]
    ELSE [err |-> "", sample |-> Len(h) + 1, heap |-> Append(h, lock(r.s)),
          mix_cache |-> (key :> (Len(h) + 1)) @@ mix_cache, mixed_key |-> key]

\* the copy of the longest sample with the other samples mixed into it
mixed_samples_mix(triggers, longest, h) ==
    mix_triggers(Ok(dup(h[longest])), triggers, 1, longest, h)

\* the branch of mixed_samples() for more than one trigger
mixed_samples_combine(triggers, key, mix_cache, h) ==
    IF key \in DOMAIN mix_cache
    THEN [err |-> "", sample |-> mix_cache[key], heap |-> h,
          mix_cache |-> mix_cache, mixed_key |-> << >>]
    ELSE mixed_samples_cache(
            key,
            mixed_samples_mix(triggers,
                              longest_sample(triggers, 2, triggers[1].sample, h), h),
            mix_cache, h)

\* the body of the loop of mixed_samples() for one element of
\* mixed_triggers(): the sample to yield (an object identity), the heap and
\* the cache after it; mixed_key is the key that was mixed, << >> if none was
mixed_samples_body(triggers, mix_cache, h) ==
    IF needs_mix(triggers)
    THEN mixed_samples_combine(triggers, instruments_key(triggers), mix_cache, h)
    ELSE [err |-> "", sample |-> triggers[1].sample, heap |-> h,
          mix_cache |-> mix_cache, mixed_key |-> << >>]

\* the loop of mix() that sums the pattern durations, from pattern n on:
\* [err, total]; next(iter(p.values())) raises StopIteration on an empty dict
RECURSIVE total_seconds_of(_, _, _)
total_seconds_of(m, n, total) ==
    IF n > Len(m.patterns) THEN [err |-> "", total |-> total]
    ELSE IF m.patterns[n] = << >> THEN [err |-> "StopIteration", total |-> total]
    ELSE total_seconds_of(m, n + 1,
            RatAdd(total, RatNorm(Len(m.patterns[n][1].bars) * 60, m.bpm * m.ticks)))

\* Sample() without make_32bit: an accumulator left at 16 bit
new_accumulator_16bit == Sample(<< >>)

\* Sample().make_32bit()
new_accumulator == make_32bit(Sample(<< >>), TRUE).s

\* the end of mix(): chop or extend the accumulator by `missing`
mix_chop_extend(mixed, total_seconds, missing) ==
    IF missing.n > 0 THEN append(mixed, missing)
    ELSE IF missing.n < 0 THEN cut(mixed, Rat(0, 1), total_seconds)
    ELSE Ok(mixed)

\* missing = total_seconds - mixed.duration
mix_finish(mixed, total_seconds) ==
    mix_chop_extend(mixed, total_seconds, RatSub(total_seconds, duration(mixed)))

\* ------------------------------------------------------------------------
\* Python floats (IEEE 754 binary64, round to nearest, ties to even)
\*
\* A positive float is [m, e] with value m * 2^e, the 53-bit mantissa m a
\* sequence of four limbs of 14 bits, most significant first; 0.0 has m all
\* zero.  Only what duration and frame_idx compute with is defined: an int
\* as a float, float / int, int * float and int(float).
\* ------------------------------------------------------------------------

Limb == 16384

Pow2(n) == 2 ^ n

\* the number of bits of 0 <= v < 2^31
RECURSIVE IntBits(_)
IntBits(v) == IF v = 0 THEN 0 ELSE 1 + IntBits(v \div 2)

\* the number of bits of the limb sequence x
RECURSIVE BigBits(_)
BigBits(x) ==
    IF x = << >> THEN 0
    ELSE IF x[1] # 0 THEN IntBits(x[1]) + 14 * (Len(x) - 1)
    ELSE BigBits(Tail(x))

\* x * k for 0 <= k < 2^16, from limb i down, two limbs longer than x
RECURSIVE BigMulFrom(_, _, _, _, _)
BigMulFrom(x, k, i, carry, acc) ==
    IF i = 0 THEN <<carry \div Limb, carry % Limb>> \o acc
    ELSE BigMulFrom(x, k, i - 1, (x[i] * k + carry) \div Limb,
                    <<(x[i] * k + carry) % Limb>> \o acc)

BigMul(x, k) == BigMulFrom(x, k, Len(x), 0, << >>)

\* floor(x / d) and x mod d for 0 < d <= 2^16, from limb i on
RECURSIVE BigDivFrom(_, _, _, _, _)
BigDivFrom(x, d, i, rem, acc) ==
    IF i > Len(x) THEN [q |-> acc, r |-> rem]
    ELSE BigDivFrom(x, d, i + 1, (rem * Limb + x[i]) % d,
                    Append(acc, (rem * Limb + x[i]) \div d))

BigDiv(x, d) == BigDivFrom(x, d, 1, 0, << >>)

\* x + 1
RECURSIVE BigInc(_)
BigInc(x) ==
    IF x = << >> THEN <<1>>
    ELSE IF x[Len(x)] + 1 < Limb THEN [x EXCEPT ![Len(x)] = @ + 1]
    ELSE Append(BigInc(SubSeq(x, 1, Len(x) - 1)), 0)

\* x * 2^n
BigShiftLeft(x, n) == BigMul(x \o [i \in 1..(n \div 14) |-> 0], Pow2(n % 14))

\* floor(x / 2^n)
BigShiftRight(x, n) ==
    IF n \div 14 >= Len(x) THEN <<0>>
    ELSE BigDiv(SubSeq(x, 1, Len(x) - n \div 14), Pow2(n % 14)).q

\* x as a number, x < 2^31
RECURSIVE BigInt(_)
BigInt(x) == IF x = << >> THEN 0 ELSE BigInt(SubSeq(x, 1, Len(x) - 1)) * Limb + x[Len(x)]

\* the last four limbs of x
Low4(x) == SubSeq(x, Len(x) - 3, Len(x))

\* the float of mantissa m and exponent e, m of 53 or (after a carry) 54 bits
FloatOf(m, e) ==
    IF BigBits(m) > 53 THEN [m |-> Low4(BigDiv(m, 2).q), e |-> e + 1]
    ELSE [m |-> Low4(m), e |-> e]

\* the float nearest to x * 2^e from the floor qr.q of x / 2^s and the rest
\* qr.r, ties to even; `sticky` says that x itself was cut off
FloatRounded(qr, s, e, sticky) ==
    IF \/ qr.r > Pow2(s - 1)
       \/ qr.r = Pow2(s - 1) /\ (sticky \/ qr.q[Len(qr.q)] % 2 = 1)
    THEN FloatOf(BigInc(qr.q), e + s)
    ELSE FloatOf(qr.q, e + s)

\* the float nearest to x * 2^e, x of `bits` bits, 0 < bits <= 53 + 16
FloatNearest(x, bits, e, sticky) ==
    IF bits > 53 THEN FloatRounded(BigDiv(x, Pow2(bits - 53)), bits - 53, e, sticky)
    ELSE FloatOf(BigShiftLeft(x, 53 - bits), e - (53 - bits))

FloatZero == [m |-> <<0, 0, 0, 0>>, e |-> 0]

\* float(n) for an int 0 <= n < 2^31
float(n) ==
    IF n = 0 THEN FloatZero
    ELSE FloatNearest(<<n \div Pow2(28), (n \div Limb) % Limb, n % Limb>>,
                      IntBits(n), 0, FALSE)

\* x / d from the quotient qr of x.m * 2^k by d
FloatQuotient(qr, e) == FloatNearest(qr.q, BigBits(qr.q), e, qr.r # 0)

\* the float x / d for an int 0 < d < 2^16
FloatDiv(x, d) ==
    IF x = FloatZero THEN x
    ELSE FloatQuotient(BigDiv(BigShiftLeft(x.m, IntBits(d) + 1), d),
                       x.e - (IntBits(d) + 1))

\* x * k from the product p
FloatProduct(p, e) == FloatNearest(p, BigBits(p), e, FALSE)

\* the float k * x for an int 0 < k < 2^16
FloatMul(k, x) ==
    IF x = FloatZero THEN x
    ELSE FloatProduct(BigMul(x.m, k), x.e)

\* int(x) for a float 0 <= x < 2^31
int(x) ==
    IF x.e >= 0 THEN BigInt(BigShiftLeft(x.m, x.e))
    ELSE BigInt(BigShiftRight(x.m, -x.e))

\* Sample.duration as Python computes it
duration_float(s) ==
    FloatDiv(FloatDiv(FloatDiv(float(BLen(s)), s.samplerate), s.sampwidth), s.nchannels)

\* Sample.frame_idx(seconds) as Python computes it, seconds a float
frame_idx_float(s, seconds) ==
    s.nchannels * s.sampwidth * int(FloatMul(s.samplerate, seconds))

\* ------------------------------------------------------------------------
\* class Song, and the song-editing commands of class Repl
\*
\* A dict with string keys is a function on the set of its keys; the empty
\* dict is << >>.  A song file is a record of what ConfigParser reads from
\* it; `patterns` holds its [pattern.NAME] sections.
\* ------------------------------------------------------------------------

\* d[key] = value
dict_set(d, key, value) == (key :> value) @@ d

\* del d[key]
dict_del(d, key) ==
    IF DOMAIN d \subseteq {key} THEN << >>
    ELSE [k \in DOMAIN d \ {key} |-> d[k]]

\* pattern[instrument] = bars on the insertion-ordered dict `pattern`
pattern_set(pattern, instrument, bars) ==
    IF \E k \in 1..Len(pattern) : pattern[k].instrument = instrument
    THEN [k \in 1..Len(pattern) |->
             IF pattern[k].instrument = instrument
             THEN [instrument |-> instrument, bars |-> bars] ELSE pattern[k]]
    ELSE Append(pattern, [instrument |-> instrument, bars |-> bars])

\* del pattern[instrument], when the key is there
pattern_del(pattern, instrument) ==
    SelectSeq(pattern, LAMBDA e : e.instrument # instrument)

\* pattern.keys()
pattern_keys(pattern) == { pattern[k].instrument : k \in 1..Len(pattern) }

\* bars.replace(' ', '')
strip_spaces(bars) == SelectSeq(bars, LAMBDA ch : ch # " ")

\* Song()
Song ==
    [instruments |-> << >>, output_path |-> FALSE, bpm |-> 128, ticks |-> 4,
     pattern_sequence |-> << >>, patterns |-> << >>]

\* read_samples: one Sample object per instrument, made in sorted order
read_samples(song, names) ==
    [song EXCEPT !.instruments = IF names = {} THEN << >>
                                 ELSE [name \in names |-> NameRank(name)]]

\* the loop over the items of one pattern section, from item k on
RECURSIVE read_pattern_items(_, _, _, _, _)
read_pattern_items(song, name, items, k, bar_length) ==
    IF k > Len(items) THEN [err |-> "", song |-> song]
    ELSE IF items[k].instrument \notin DOMAIN song.instruments
    THEN [err |-> "ValueError: instrument not defined", song |-> song]
    ELSE IF Len(strip_spaces(items[k].bars)) % song.ticks # 0
    THEN [err |-> "ValueError: all patterns must be multiple of song ticks",
          song |-> song]
    ELSE IF 0 < bar_length /\ bar_length # Len(strip_spaces(items[k].bars))
    THEN [err |-> "ValueError: all bars must be of equal length in the same pattern",
          song |-> [song EXCEPT !.patterns[name] =
                       pattern_set(@, items[k].instrument, strip_spaces(items[k].bars))]]
    ELSE read_pattern_items(
             [song EXCEPT !.patterns[name] =
                 pattern_set(@, items[k].instrument, strip_spaces(items[k].bars))],
             name, items, k + 1, Len(strip_spaces(items[k].bars)))

\* read_patterns after the loop over one section, r its result
RECURSIVE read_patterns_from(_, _, _, _)
read_patterns_next(r, songdef, names, n) ==
    IF r.err # "" THEN r
    ELSE read_patterns_from(
             [r.song EXCEPT !.pattern_sequence = Append(@, names[n])],
             songdef, names, n + 1)

\* the loop over the names in read_patterns, from name n on
read_patterns_from(song, songdef, names, n) ==
    IF n > Len(names) THEN [err |-> "", song |-> song]
    ELSE IF names[n] \notin DOMAIN songdef.patterns
    THEN [err |-> "ValueError: pattern definition not found", song |-> song]
    ELSE read_patterns_next(
             read_pattern_items(
                 [song EXCEPT !.patterns = dict_set(@, names[n], << >>)],
                 names[n], songdef.patterns[names[n]], 1, 0),
             songdef, names, n)

read_patterns(song, songdef, names) ==
    read_patterns_from([song EXCEPT !.pattern_sequence = << >>, !.patterns = << >>],
                       songdef, names, 1)

\* the instruments no pattern of the sequence uses
unused_instruments(song) ==
    DOMAIN song.instruments
      \ UNION { pattern_keys(song.patterns[song.pattern_sequence[k]]) :
                  k \in 1..Len(song.pattern_sequence) }

\* the end of read: unload the unused instruments
read_discard(r, discard_unused_instruments) ==
    IF r.err # "" \/ ~discard_unused_instruments THEN r
    ELSE [err |-> "",
          song |-> [r.song EXCEPT !.instruments =
                       IF DOMAIN @ \subseteq unused_instruments(r.song) THEN << >>
                       ELSE [name \in DOMAIN @ \ unused_instruments(r.song) |-> @[name]]]]

\* read after read_samples: the [song] section and its patterns
read_song(song, cp) ==
    IF ~cp.has_song THEN [err |-> "", song |-> song]
    ELSE read_patterns([song EXCEPT !.bpm = cp.bpm, !.ticks = cp.ticks],
                       cp, cp.names)

\* Song().read(song_file, discard_unused_instruments): [err, song]
read(cp, discard_unused_instruments) ==
    IF ~cp.exists \/ ~cp.wavs_ok THEN [err |-> "IOError", song |-> Song]
    ELSE read_discard(
             read_song(read_samples([Song EXCEPT !.output_path = TRUE],
                                    cp.instruments), cp),
             discard_unused_instruments)

\* the end of do_rec: an emptied pattern is removed from the table
rec_cleanup(song, pattern_name) ==
    IF song.patterns[pattern_name] = << >>
    THEN [song EXCEPT !.patterns = dict_del(@, pattern_name)]
    ELSE song

\* do_rec once the pattern is in the table: record or remove the bars
rec_bars(song, pattern_name, instrument, bars) ==
    IF bars # << >>
    THEN IF Len(strip_spaces(bars)) % song.ticks # 0
         THEN song
         ELSE rec_cleanup([song EXCEPT !.patterns[pattern_name] =
                              pattern_set(@, instrument, strip_spaces(bars))],
                          pattern_name)
    ELSE rec_cleanup([song EXCEPT !.patterns[pattern_name] =
                         pattern_del(@, instrument)],
                     pattern_name)

\* do_rec with the arguments pattern_name, instrument and bars (<< >> when
\* the bars are omitted): the song after the command
do_rec(song, pattern_name, instrument, bars) ==
    IF instrument \notin DOMAIN song.instruments THEN song
    ELSE rec_bars(IF pattern_name \in DOMAIN song.patterns THEN song
                  ELSE [song EXCEPT !.patterns = dict_set(@, pattern_name, << >>)],
                  pattern_name, instrument, bars)

\* do_seq with a non-empty list of names
do_seq(song, names) ==
    IF \E k \in 1..Len(names) : names[k] \notin DOMAIN song.patterns
    THEN song
    ELSE [song EXCEPT !.pattern_sequence = names]

\* patterns = [self.patterns[name] for name in self.pattern_sequence]
\* Mixer(patterns, self.bpm, self.ticks, self.instruments): the exception
\* raised, "" if none
song_mixer(song) ==
    IF \E k \in 1..Len(song.pattern_sequence) :
          song.pattern_sequence[k] \notin DOMAIN song.patterns
    THEN "KeyError"
    ELSE Mixer_init([k \in 1..Len(song.pattern_sequence) |->
                        song.patterns[song.pattern_sequence[k]]],
                    song.bpm, song.ticks, song.instruments).err

\* ------------------------------------------------------------------------
\* State
\* ------------------------------------------------------------------------

VARIABLES
    smp,     \* the Sample object the operations are called on
    call,    \* the last call on smp: operation, arguments, the sample before
             \* the call and the exception raised ("" when it returned)
    nops,    \* number of calls made on smp
    mixer,   \* the Mixer object: patterns, bpm, ticks, instruments (name -> object)
    heap,    \* the Sample objects the Mixer works with, by object identity
    given,   \* the heap as it was when the Mixer was constructed
    pc,      \* "new", "rejected" (the constructor raised; mixer then holds
             \* the arguments it was given), "idle", or the
             \* running operation: "triggers", "samples", "mix"
    run,     \* the running generator: position in the patterns, the mix
             \* cache, the accumulator of mix(), what was yielded so far
    last,    \* how the last operation on the Mixer ended
    nruns,   \* number of operations started on the Mixer
    song,    \* the Song object of the Repl session
    repl,    \* the Repl session: its option, the last command and how it
             \* ended, the number of commands, whether it still runs
    probe,   \* the last reading of smp: its duration, and the offset
             \* frame_idx gave for it
    objs     \* a Sample object and the object dup() made of it, each with
             \* the buffer object its __frames refers to, and the buffers

sample_vars == <<smp, call, nops>>

mixer_vars == <<mixer, heap, given, pc, run, last, nruns>>

song_vars == <<song, repl>>

vars == <<smp, call, nops, mixer, heap, given, pc, run, last, nruns, song, repl, probe, objs>>

\* no Mixer constructed yet
NoMixer == [patterns |-> << >>, instruments |-> << >>, bpm |-> 0, ticks |-> 0]

\* a generator that has not run: mix_cache = {}, index = 0
NoRun ==
    [p |-> 0, i |-> 0, index |-> 0, mix_cache |-> << >>, acc |-> 0,
     total |-> Rat(0, 1), yields |-> << >>, mixes |-> << >>]

NoLast == [op |-> "none", err |-> "", result |-> 0]

\* no Repl session
NoRepl ==
    [discard_unused_instruments |-> FALSE, alive |-> FALSE, cmd |-> "",
     err |-> "", crash |-> "", ncmds |-> 0]

MixerUnused ==
    /\ mixer = NoMixer
    /\ heap = << >>
    /\ given = << >>
    /\ pc = "new"
    /\ run = NoRun
    /\ last = NoLast
    /\ nruns = 0

SongUnused ==
    /\ song = Song
    /\ repl = NoRepl

\* nothing read yet
NoProbe == [op |-> "none", seconds |-> FloatZero, idx |-> 0]

\* a Sample object: its attributes s (the frames are in the buffer) and the
\* buffer object __frames refers to; buf = 0 is __frames = None
Object(s, buf) == [s |-> [s EXCEPT !.frames = << >>], buf |-> buf]

\* no Sample objects yet
NoObjs ==
    [bufs |-> << >>, orig |-> Object(Sample(<< >>), 0), copy |-> Object(Sample(<< >>), 0),
     copied |-> FALSE, kept |-> Sample(<< >>), op |-> "none", err |-> "", n |-> 0]

\* ------------------------------------------------------------------------
\* Operations on one Sample object
\* ------------------------------------------------------------------------

MaxOps == 3

\* one frame of audio at the normal rate, in seconds
Frames(k) == Rat(k, norm_samplerate)

\* a Sample as Sample.load_wav leaves it
Loaded(frames, samplerate, nchannels, sampwidth) ==
    [frames |-> frames, nobuf |-> FALSE, samplerate |-> samplerate,
     nchannels |-> nchannels, sampwidth |-> sampwidth, locked |-> FALSE]

\* the Samples the operations start from: empty, made from whole frames,
\* decoded from a WAV file, and an instrument as Song.read_samples makes it
SampleChoices ==
    { Sample(<< >>),
      Sample(<<3, -4, 5, 6>>),
      Loaded(<<10, -20>>, 22050, 1, 2),
      Loaded(<<100, -200, 300, 400>>, 44100, 2, 3),
      Loaded(<<1, 2, -3, 4, 5, 6>>, 44100, 2, 4),
      lock(Loaded(<<7, 8>>, 44100, 2, 4)) }

\* the Samples passed as `other` to mix and mix_at
OtherChoices ==
    { Sample(<<20, 30>>),
      Loaded(<<40, 50>>, 44100, 2, 4),
      lock(Loaded(<<-1, -2, 60, 70>>, 44100, 2, 4)) }

SecondsChoices ==
    { Frames(-2), Frames(-1), Frames(0), Frames(1), Rat(3, 2 * norm_samplerate) }

CutChoices ==
    { <<Frames(0), Frames(1)>>, <<Frames(1), Frames(2)>>, <<Frames(1), Frames(3)>>,
      <<Frames(1), Frames(0)>>, <<Frames(-1), Frames(1)>> }

FactorChoices == { Rat(2, 1), Rat(-1, 2) }

NoCall ==
    [op |-> "init", err |-> "", pre |-> Sample(<< >>), seconds |-> Frames(0),
     seconds2 |-> Frames(0), other |-> Sample(<< >>), flag |-> FALSE]

\* the call `op` with result r becomes the last call on smp
Called(op, r, seconds, seconds2, other, flag) ==
    /\ nops < MaxOps
    /\ smp' = r.s
    /\ call' = [op |-> op, err |-> r.err, pre |-> smp, seconds |-> seconds,
                seconds2 |-> seconds2, other |-> other, flag |-> flag]
    /\ nops' = nops + 1
    /\ UNCHANGED <<mixer_vars, song_vars, probe, objs>>

DoLock ==
    Called("lock", Ok(lock(smp)), Frames(0), Frames(0), Sample(<< >>), FALSE)

DoNormalize ==
    Called("normalize", normalize(smp), Frames(0), Frames(0), Sample(<< >>), FALSE)

DoMake32bit ==
    \E scale_amplitude \in BOOLEAN :
        Called("make_32bit", make_32bit(smp, scale_amplitude),
               Frames(0), Frames(0), Sample(<< >>), scale_amplitude)

DoMake16bit ==
    \E maximize_amplitude \in BOOLEAN :
        Called("make_16bit", make_16bit(smp, maximize_amplitude),
               Frames(0), Frames(0), Sample(<< >>), maximize_amplitude)

DoAmplifyMax ==
    Called("amplify_max", amplify_max(smp), Frames(0), Frames(0), Sample(<< >>), FALSE)

DoAmplify ==
    \E factor \in FactorChoices :
        Called("amplify", amplify(smp, factor), factor, Frames(0), Sample(<< >>), FALSE)

DoCut ==
    \E c \in CutChoices :
        Called("cut", cut(smp, c[1], c[2]), c[1], c[2], Sample(<< >>), FALSE)

DoAppend ==
    \E seconds \in SecondsChoices :
        Called("append", append(smp, seconds), seconds, Frames(0), Sample(<< >>), FALSE)

DoMix ==
    \E other \in OtherChoices, other_seconds \in {Frames(0), Frames(1)},
       pad_shortest \in BOOLEAN :
        Called("mix", mix(smp, other, other_seconds, pad_shortest),
               Frames(0), other_seconds, other, pad_shortest)

DoMixAt ==
    \E seconds \in SecondsChoices, other \in OtherChoices,
       other_seconds \in {Frames(0), Frames(1)} :
        Called("mix_at", mix_at(smp, seconds, other, other_seconds),
               seconds, other_seconds, other, FALSE)

InitSample ==
    /\ smp \in SampleChoices
    /\ probe = NoProbe
    /\ objs = NoObjs
    /\ SongUnused
    /\ call = NoCall
    /\ nops = 0
    /\ MixerUnused

NextSample ==
    \/ DoLock
    \/ DoNormalize
    \/ DoMake32bit
    \/ DoMake16bit
    \/ DoAmplifyMax
    \/ DoAmplify
    \/ DoCut
    \/ DoAppend
    \/ DoMix
    \/ DoMixAt

SpecSample == InitSample /\ [][NextSample]_vars

\* ------------------------------------------------------------------------
\* Operations on one Mixer object
\* ------------------------------------------------------------------------

MaxPatterns == 2

MaxRuns == 2

Entry(instrument, bars) == [instrument |-> instrument, bars |-> bars]

\* patterns as Song.read_patterns and Repl.do_rec hand them over, and the
\* dicts a caller of Mixer can pass
P_empty    == << >>
P_a0       == <<Entry("a", << >>)>>
P_a0_b2    == <<Entry("a", << >>), Entry("b", <<"x", ".">>)>>
P_b2_a0    == <<Entry("b", <<"x", ".">>), Entry("a", << >>)>>
P_ab       == <<Entry("a", <<"x", ".">>), Entry("b", <<".", "x">>)>>
P_ab_chord == <<Entry("a", <<"x", "x">>), Entry("b", <<"x", ".">>)>>
P_ba_chord == <<Entry("b", <<".", "x">>), Entry("a", <<"x", "x">>)>>
P_rest     == <<Entry("a", <<".", " ">>)>>
P_other    == <<Entry("a", <<"o", "X">>)>>
P_tail     == <<Entry("b", <<".", "x">>)>>
P_a1       == <<Entry("a", <<"x">>)>>
P_a3       == <<Entry("a", <<"x", ".", "x">>)>>
P_a2_b1    == <<Entry("a", <<"x", ".">>), Entry("b", <<"x">>)>>
P_c        == <<Entry("c", <<"x", ".">>)>>
P_ac_chord == <<Entry("c", <<"x", ".">>), Entry("a", <<"x", ".">>)>>

\* pattern sequences of a song; a Mixer gets the first n patterns of one
SongChoices ==
    { <<P_ab_chord, P_ba_chord, P_ab>>,
      <<P_rest, P_other, P_tail>>,
      <<P_tail, P_rest, P_ab_chord>>,
      <<P_ab, P_ab_chord, P_rest>>,
      <<P_empty, P_ab, P_tail>>,
      <<P_ab, P_empty, P_ab>>,
      <<P_a0, P_ab_chord, P_a0_b2>>,
      <<P_a0_b2, P_ab, P_a0>>,
      <<P_ab_chord, P_a0_b2, P_ba_chord>>,
      <<P_b2_a0, P_ab, P_ab>>,
      <<P_ab, P_b2_a0, P_ab>>,
      <<P_a1, P_a3, P_a1>>,
      <<P_a2_b1, P_ab, P_ab>>,
      <<P_ab, P_a2_b1, P_tail>>,
      <<P_c, P_ab, P_ac_chord>>,
      <<P_ac_chord, P_c, P_ab_chord>> }

PatternLists ==
    { SubSeq(sequence, 1, n) : sequence \in SongChoices, n \in 0..MaxPatterns }

\* <<bpm, ticks>>: one frame, one and a half frames and two frames per tick
\* at the normal sample rate
TempoChoices == { <<1323000, 2>>, <<882000, 2>>, <<1323000, 1>> }

\* an instrument as Song.read_samples makes it
Instrument32(frames) ==
    lock(make_32bit(normalize(Loaded(frames, 44100, 2, 2)).s, FALSE).s)

\* an instrument that is normalized and locked only
Instrument16(frames) == lock(normalize(Loaded(frames, 44100, 2, 2)).s)

\* instrument tables: the heap of Sample objects and the name -> object map
Table(samples, instruments) == [heap |-> samples, instruments |-> instruments]

TableChoices ==
    { Table(<<Instrument32(<<1000, -2000>>), Instrument32(<<30, 40, -50, 60>>)>>,
            ("a" :> 1) @@ ("b" :> 2)),
      Table(<<Instrument16(<<1000, -2000>>), Instrument16(<<30, 40, -50, 60>>)>>,
            ("a" :> 1) @@ ("b" :> 2)),
      Table(<<dup(Instrument32(<<1000, -2000>>)), Instrument32(<<30, 40, -50, 60>>)>>,
            ("a" :> 1) @@ ("b" :> 2)),
      Table(<<Instrument32(<<7, 8, 9, 10>>), Instrument32(<<30, 40, -50, 60>>)>>,
            ("a" :> 1) @@ ("b" :> 2) @@ ("c" :> 1)) }

\* Mixer(patterns, bpm, ticks, instruments)
NewMixer ==
    /\ pc = "new"
    /\ \E patterns \in PatternLists, tempo \in TempoChoices, table \in TableChoices :
          LET r == Mixer_init(patterns, tempo[1], tempo[2], table.instruments)
          IN  /\ pc' = IF r.err # "" THEN "rejected" ELSE "idle"
              /\ mixer' = r.mixer
              /\ last' = [op |-> "init", err |-> r.err, result |-> 0]
              /\ heap' = table.heap
              /\ given' = table.heap
    /\ UNCHANGED <<run, nruns, sample_vars, song_vars, probe, objs>>

\* what a generator has yielded
Yielded(index, timestamp, triggers, sample) ==
    [index |-> index, timestamp |-> timestamp, names |-> trigger_names(triggers),
     samples |-> [k \in 1..Len(triggers) |-> triggers[k].sample], sample |-> sample]

\* the operation `op` ends with error err (none if "") and result `result`
Ended(op, err, result) ==
    /\ pc' = "idle"
    /\ last' = [op |-> op, err |-> err, result |-> result]

\* g = mixer.mixed_triggers()
StartTriggers ==
    /\ pc = "idle"
    /\ nruns < MaxRuns
    /\ pc' = "triggers"
    /\ run' = NoRun
    /\ nruns' = nruns + 1
    /\ UNCHANGED <<mixer, heap, given, last, sample_vars, song_vars, probe, objs>>

\* next(g) on the mixed_triggers() generator, t what the generator does
TriggersResumed(t) ==
    IF t.kind = "yield"
    THEN /\ run' = [run EXCEPT !.p = t.p, !.i = t.i, !.index = t.index,
                        !.yields = Append(@, Yielded(t.index - 1, t.timestamp,
                                                     t.triggers, 0))]
         /\ UNCHANGED <<pc, last>>
    ELSE /\ Ended("triggers", t.err, 0)
         /\ UNCHANGED run

TriggersStep ==
    /\ pc = "triggers"
    /\ TriggersResumed(mixed_triggers_next(mixer, run.p, run.i, run.index))
    /\ UNCHANGED <<mixer, heap, given, nruns, sample_vars, song_vars, probe, objs>>

\* g = mixer.mixed_samples()
StartSamples ==
    /\ pc = "idle"
    /\ nruns < MaxRuns
    /\ pc' = "samples"
    /\ run' = NoRun
    /\ nruns' = nruns + 1
    /\ UNCHANGED <<mixer, heap, given, last, sample_vars, song_vars, probe, objs>>

\* the yield of mixed_samples(): t the element of mixed_triggers(), b the
\* result of the loop body
mixed_samples_yield(r, h, t, b) ==
    IF b.err # ""
    THEN [kind |-> "raise", err |-> b.err, run |-> r, heap |-> h,
          timestamp |-> t.timestamp, sample |-> 0]
    ELSE [kind |-> "yield", err |-> "",
          run |-> [r EXCEPT !.p = t.p, !.i = t.i, !.index = t.index,
                            !.mix_cache = b.mix_cache,
                            !.yields = Append(@, Yielded(t.index - 1, t.timestamp,
                                                         t.triggers, b.sample)),
                            !.mixes = IF b.mixed_key = << >> THEN @
                                      ELSE Append(@, b.mixed_key)],
          heap |-> b.heap, timestamp |-> t.timestamp, sample |-> b.sample]

\* mixed_samples() from the next element t of mixed_triggers() on
mixed_samples_element(r, h, t) ==
    IF t.kind # "yield"
    THEN [kind |-> t.kind, err |-> t.err, run |-> r, heap |-> h,
          timestamp |-> t.timestamp, sample |-> 0]
    ELSE mixed_samples_yield(r, h, t, mixed_samples_body(t.triggers, r.mix_cache, h))

\* mixed_samples() resumed up to its next yield
mixed_samples_next(m, r, h) ==
    mixed_samples_element(r, h, mixed_triggers_next(m, r.p, r.i, r.index))

\* next(g) on the mixed_samples() generator, n what the generator does
SamplesResumed(n) ==
    IF n.kind = "yield"
    THEN /\ run' = n.run
         /\ heap' = n.heap
         /\ UNCHANGED <<pc, last>>
    ELSE /\ Ended("samples", n.err, 0)
         /\ UNCHANGED <<run, heap>>

SamplesStep ==
    /\ pc = "samples"
    /\ SamplesResumed(mixed_samples_next(mixer, run, heap))
    /\ UNCHANGED <<mixer, given, nruns, sample_vars, song_vars, probe, objs>>

\* mix() after its early return: t the sum of the pattern durations
MixLoopEntered(t) ==
    IF t.err # ""
    THEN /\ run' = NoRun
         /\ Ended("mix", t.err, 0)
         /\ UNCHANGED heap
    ELSE /\ heap' = Append(heap, new_accumulator)
         /\ run' = [NoRun EXCEPT !.acc = Len(heap) + 1, !.total = t.total]
         /\ pc' = "mix"
         /\ UNCHANGED last

\* mixer.mix() up to its loop over mixed_samples()
StartMix ==
    /\ pc = "idle"
    /\ nruns < MaxRuns
    /\ nruns' = nruns + 1
    /\ IF mixer.patterns = << >>
       THEN /\ heap' = Append(heap, Sample(<< >>))
            /\ run' = [NoRun EXCEPT !.acc = Len(heap) + 1]
            /\ Ended("mix", "", Len(heap) + 1)
       ELSE MixLoopEntered(total_seconds_of(mixer, 1, Rat(0, 1)))
    /\ UNCHANGED <<mixer, given, sample_vars, song_vars, probe, objs>>

\* the round of the loop of mix() as it would be if the sum were written to
\* the yielded sample and not to the accumulator
MixedAt_yielded(n, a) ==
    /\ run' = n.run
    /\ heap' = [n.heap EXCEPT ![n.sample] = a.s]
    /\ IF a.err # "" THEN Ended("mix", a.err, 0) ELSE UNCHANGED <<pc, last>>

\* mixed.mix_at(timestamp, sample) with result a, n the element of
\* mixed_samples(); an exception ends mix()
MixedAt(n, a) ==
    /\ run' = n.run
    /\ heap' = [n.heap EXCEPT ![run.acc] = a.s]
    /\ IF a.err # "" THEN Ended("mix", a.err, 0) ELSE UNCHANGED <<pc, last>>

\* the end of mix(): f the result of the chop/extend, then return mixed
MixReturned(f) ==
    /\ heap' = [heap EXCEPT ![run.acc] = f.s]
    /\ Ended("mix", f.err, IF f.err # "" THEN 0 ELSE run.acc)
    /\ UNCHANGED run

\* one round of the loop of mix(), n what mixed_samples() does
MixResumed(n) ==
    IF n.kind = "yield"
    THEN MixedAt(n, mix_at(n.heap[run.acc], n.timestamp, n.heap[n.sample], Rat(0, 1)))
    ELSE IF n.kind = "raise"
    THEN /\ Ended("mix", n.err, 0)
         /\ UNCHANGED <<run, heap>>
    ELSE MixReturned(mix_finish(heap[run.acc], run.total))

\* one round of the loop of mix(), or its end when mixed_samples() is
\* exhausted: chop/extend and return
MixStep ==
    /\ pc = "mix"
    /\ MixResumed(mixed_samples_next(mixer, run, heap))
    /\ UNCHANGED <<mixer, given, nruns, sample_vars, song_vars, probe, objs>>

InitMixer ==
    /\ smp = Sample(<< >>)
    /\ probe = NoProbe
    /\ objs = NoObjs
    /\ SongUnused
    /\ call = NoCall
    /\ nops = 0
    /\ MixerUnused

NextMixer ==
    \/ NewMixer
    \/ StartTriggers
    \/ TriggersStep
    \/ StartSamples
    \/ SamplesStep
    \/ StartMix
    \/ MixStep

SpecMixer == InitMixer /\ [][NextMixer]_vars

\* ------------------------------------------------------------------------
\* The two-bar scenario: Mixer([{a: "x..x..x.", b: "..x..x.."}], 120, 4, ...)
\* with two instruments of a tenth of a second
\* ------------------------------------------------------------------------

ScenarioPattern ==
    <<Entry("a", <<"x", ".", ".", "x", ".", ".", "x", ".">>),
      Entry("b", <<".", ".", "x", ".", ".", "x", ".", ".">>)>>

\* a tenth of a second of stereo frames (v, -v) at the normal sample rate
Tone(v) == [i \in 1..(norm_nchannels * (norm_samplerate \div 10)) |->
                IF i % 2 = 1 THEN v ELSE -v]

ScenarioTables ==
    { Table(<<Instrument32(Tone(1000)), Instrument32(Tone(300))>>,
            ("a" :> 1) @@ ("b" :> 2)),
      Table(<<Instrument32(Tone(-7)), Instrument32(Tone(32767))>>,
            ("a" :> 1) @@ ("b" :> 2)) }

\* Mixer([ScenarioPattern], 120, 4, instruments)
NewScenario ==
    /\ pc = "new"
    /\ \E table \in ScenarioTables :
          LET r == Mixer_init(<<ScenarioPattern>>, 120, 4, table.instruments)
          IN  /\ pc' = IF r.err # "" THEN "rejected" ELSE "idle"
              /\ mixer' = r.mixer
              /\ last' = [op |-> "init", err |-> r.err, result |-> 0]
              /\ heap' = table.heap
              /\ given' = table.heap
    /\ UNCHANGED <<run, nruns, sample_vars, song_vars, probe, objs>>

NextScenario ==
    \/ NewScenario
    \/ StartTriggers
    \/ TriggersStep
    \/ StartSamples
    \/ SamplesStep
    \/ StartMix
    \/ MixStep

SpecScenario == InitMixer /\ [][NextScenario]_vars

\* ------------------------------------------------------------------------
\* A Repl session: the commands that edit the song, and Song.mixed_triggers
\* up to the construction of its Mixer
\* ------------------------------------------------------------------------

MaxCmds == 3

PatternNames == {"p", "q"}

\* a song file as ConfigParser reads it
SongFile(instruments, has_song, bpm, ticks, names, patterns) ==
    [exists |-> TRUE, wavs_ok |-> TRUE, instruments |-> instruments,
     has_song |-> has_song, bpm |-> bpm, ticks |-> ticks, names |-> names,
     patterns |-> patterns]

FileChoices ==
    { \* instruments only
      SongFile({"a", "b"}, FALSE, 0, 0, << >>, << >>),
      \* two patterns, both in the sequence
      SongFile({"a", "b"}, TRUE, 120, 2, <<"p", "q">>,
               ("p" :> <<Entry("a", <<"x", ".">>), Entry("b", <<".", " ", "x">>)>>)
               @@ ("q" :> <<Entry("a", <<"x", "x">>)>>)),
      \* one pattern, twice in the sequence, and an instrument it does not use
      SongFile({"a", "b"}, TRUE, 60, 1, <<"p", "p">>,
               ("p" :> <<Entry("a", <<"x">>)>>)),
      \* a pattern of the sequence has no section
      SongFile({"a"}, TRUE, 120, 2, <<"p", "q">>,
               ("p" :> <<Entry("a", <<"x", ".">>)>>)),
      \* a pattern names an instrument that is not defined
      SongFile({"a"}, TRUE, 120, 2, <<"p">>,
               ("p" :> <<Entry("a", <<"x", ".">>), Entry("b", <<"x", ".">>)>>)),
      \* bars of unequal length
      SongFile({"a", "b"}, TRUE, 120, 1, <<"p">>,
               ("p" :> <<Entry("a", <<"x", ".">>), Entry("b", <<"x">>)>>)),
      \* an instrument's WAV file cannot be loaded
      [SongFile({"a"}, FALSE, 0, 0, << >>, << >>) EXCEPT !.wavs_ok = FALSE],
      \* no such file
      [SongFile({}, FALSE, 0, 0, << >>, << >>) EXCEPT !.exists = FALSE] }

\* arguments of rec: the instrument, and the bars (<< >>: omitted)
RecInstruments == {"a", "b", "c"}

RecBars == { << >>, <<"x">>, <<"x", ".">>, <<".", " ", "x">> }

\* arguments of seq
SeqChoices == { <<"p">>, <<"q">>, <<"p", "q">>, <<"q", "q">> }

\* arguments of bpm and ticks: a number, or text that int() rejects (0)
BpmChoices == {0, 60, 120}

TicksChoices == {0, 1, 2}

\* the command `cmd` has been carried out: the song after it, the exception
\* that ended the session ("" if none) and what it raised inside (if caught)
Commanded(cmd, after, crash, err) ==
    /\ repl.alive
    /\ repl.ncmds < MaxCmds
    /\ song' = after
    /\ repl' = [repl EXCEPT !.cmd = cmd, !.err = err, !.crash = crash,
                            !.alive = (crash = ""), !.ncmds = @ + 1]
    /\ UNCHANGED <<sample_vars, mixer_vars, probe, objs>>

\* do_bpm: int(bpm), a ValueError is caught and printed
DoBpm ==
    \E bpm \in BpmChoices :
        IF bpm = 0 THEN Commanded("bpm", song, "", "ValueError")
        ELSE Commanded("bpm", [song EXCEPT !.bpm = bpm], "", "")

\* do_ticks: int(ticks), a ValueError is caught and printed
DoTicks ==
    \E ticks \in TicksChoices :
        IF ticks = 0 THEN Commanded("ticks", song, "", "ValueError")
        ELSE Commanded("ticks", [song EXCEPT !.ticks = ticks], "", "")

DoRec ==
    \E pattern_name \in PatternNames, instrument \in RecInstruments, bars \in RecBars :
        Commanded("rec", do_rec(song, pattern_name, instrument, bars), "", "")

DoSeq ==
    \E names \in SeqChoices :
        Commanded("seq", do_seq(song, names), "", "")

\* do_load from the result r of Song().read: only an IOError is caught
Loaded_song(r) ==
    IF r.err = "" THEN Commanded("load", r.song, "", "")
    ELSE IF r.err = "IOError" THEN Commanded("load", song, "", r.err)
    ELSE Commanded("load", song, r.err, r.err)

DoLoad ==
    \E cp \in FileChoices : Loaded_song(read(cp, repl.discard_unused_instruments))

\* next(song.mixed_triggers()) up to the construction of the Mixer
SongMixedTriggers ==
    Commanded("mixed_triggers", song, "", song_mixer(song))

\* Repl(discard_unused_instruments)
InitSong ==
    /\ song = Song
    /\ \E discard \in BOOLEAN :
          repl = [discard_unused_instruments |-> discard, alive |-> TRUE,
                  cmd |-> "", err |-> "", crash |-> "", ncmds |-> 0]
    /\ smp = Sample(<< >>)
    /\ call = NoCall
    /\ nops = 0
    /\ probe = NoProbe
    /\ objs = NoObjs
    /\ MixerUnused

NextSong ==
    \/ DoBpm
    \/ DoTicks
    \/ DoRec
    \/ DoSeq
    \/ DoLoad
    \/ SongMixedTriggers

SpecSong == InitSong /\ [][NextSong]_vars

\* ------------------------------------------------------------------------
\* Reading the duration of a Sample and converting it back to an offset
\* ------------------------------------------------------------------------

MaxFrames == 16

\* sample rates of WAV files
RateChoices == {8000, 11025, 22050, 44100, 48000}

\* silent Samples of up to MaxFrames frames in every format load_wav accepts
RoundTripChoices ==
    { Loaded(Zeros(n * nchannels), samplerate, nchannels, sampwidth) :
        n \in 0..MaxFrames, samplerate \in RateChoices, nchannels \in 1..2,
        sampwidth \in 2..4 }

\* seconds = smp.duration
DoDuration ==
    /\ probe.op = "none"
    /\ probe' = [op |-> "duration", seconds |-> duration_float(smp), idx |-> 0]
    /\ UNCHANGED <<sample_vars, mixer_vars, song_vars, objs>>

\* smp.frame_idx(seconds)
DoFrameIdx ==
    /\ probe.op = "duration"
    /\ probe' = [probe EXCEPT !.op = "frame_idx",
                              !.idx = frame_idx_float(smp, probe.seconds)]
    /\ UNCHANGED <<sample_vars, mixer_vars, song_vars, objs>>

InitRoundTrip ==
    /\ smp \in RoundTripChoices
    /\ call = NoCall
    /\ nops = 0
    /\ probe = NoProbe
    /\ objs = NoObjs
    /\ MixerUnused
    /\ SongUnused

NextRoundTrip ==
    \/ DoDuration
    \/ DoFrameIdx

SpecRoundTrip == InitRoundTrip /\ [][NextRoundTrip]_vars

\* ------------------------------------------------------------------------
\* dup(): Sample objects and the buffer objects their __frames refer to
\* ------------------------------------------------------------------------

\* a buffer object as it would be if every buffer were a bytearray
Buffer_bytearray(frames, mutable) == [frames |-> frames, mutable |-> TRUE]

\* a buffer object: bytes, which every buffer the code makes is (b"",
\* readframes, the audioop results, slices and sums of bytes), or a
\* bytearray (mutable)
Buffer(frames, mutable) == [frames |-> frames, mutable |-> mutable]

\* the attributes of the object o with the content of its buffer
Deref(o, bufs) ==
    IF o.buf = 0 THEN o.s ELSE [o.s EXCEPT !.frames = bufs[o.buf].frames]

\* the call on the copy ended with err
Result(st, err) == [st EXCEPT !.err = err]

\* the buffer of the copy is a bytearray
IsMutable(st) == st.copy.buf # 0 /\ st.bufs[st.copy.buf].mutable

\* self.__frames = ...: the copy refers to a new buffer object
Rebound(st, s, mutable) ==
    [st EXCEPT !.bufs = Append(st.bufs, Buffer(s.frames, mutable)),
               !.copy = Object(s, Len(st.bufs) + 1)]

\* `+=` on the buffer object of the copy: a bytearray grows in place, and
\* with it every object that refers to it
GrownInPlace(st, frames) ==
    IF IsMutable(st) THEN [st EXCEPT !.bufs[st.copy.buf].frames = frames] ELSE st

\* copy = Sample(self.__frames), then the attributes: the copy refers to the
\* buffer object of the original
dup_object(o, bufs) == Object(dup(Deref(o, bufs)), o.buf)

copy_lock(st) == Result([st EXCEPT !.copy.s = lock(st.copy.s)], "")

\* self.__frames += b"\0"*required_extra
copy_append_set(st, r) ==
    Result(IF r.err # "" THEN st
           ELSE IF IsMutable(st) THEN GrownInPlace(st, r.s.frames)
           ELSE Rebound(st, r.s, FALSE),
           r.err)

copy_append(st, seconds) ==
    copy_append_set(st, append(Deref(st.copy, st.bufs), seconds))

\* self.__frames = self.__frames[start:end], when end is not the length
copy_cut_set(st, s, r, end_seconds) ==
    Result(IF r.err # "" \/ frame_idx(s, end_seconds) = BLen(s) THEN st
           ELSE Rebound(st, r.s, IsMutable(st)),
           r.err)

copy_cut_of(st, s, start_seconds, end_seconds) ==
    copy_cut_set(st, s, cut(s, start_seconds, end_seconds), end_seconds)

copy_cut(st, start_seconds, end_seconds) ==
    copy_cut_of(st, Deref(st.copy, st.bufs), start_seconds, end_seconds)

\* self.__frames = audioop.mul(...)
copy_amplify_set(st, r) ==
    Result(IF r.err # "" THEN st ELSE Rebound(st, r.s, FALSE), r.err)

copy_amplify(st, factor) ==
    copy_amplify_set(st, amplify(Deref(st.copy, st.bufs), factor))

\* normalize assigns self.__frames the result of an audioop call with every
\* attribute it changes
copy_normalize_set(st, s, r) ==
    Result(IF r.s = s THEN st ELSE Rebound(st, r.s, FALSE), r.err)

copy_normalize_of(st, s) == copy_normalize_set(st, s, normalize(s))

copy_normalize(st) == copy_normalize_of(st, Deref(st.copy, st.bufs))

\* frames1 = self.__frames; frames1 += b"\0"*(len(frames2)-len(frames1))
copy_mix_padded(st, frames1, frames2, pad_shortest, err) ==
    IF \/ err \in {"AssertionError", "TypeError"}
       \/ ~pad_shortest
       \/ Len(frames1) >= Len(frames2)
    THEN st
    ELSE GrownInPlace(st, frames1 \o Zeros(Len(frames2) - Len(frames1)))

\* self.__frames = audioop.add(frames1, frames2, self.sampwidth)
copy_mix_set(st, r) ==
    Result(IF r.err # "" THEN st ELSE Rebound(st, r.s, FALSE), r.err)

copy_mix_from(st, s, frames2, pad_shortest, r) ==
    copy_mix_set(copy_mix_padded(st, s.frames, frames2, pad_shortest, r.err), r)

copy_mix_of(st, s, other, other_seconds, pad_shortest) ==
    copy_mix_from(st, s, other_frames_of(other, other_seconds), pad_shortest,
                  mix(s, other, other_seconds, pad_shortest))

copy_mix(st, other, other_seconds, pad_shortest) ==
    copy_mix_of(st, Deref(st.copy, st.bufs), other, other_seconds, pad_shortest)

\* _mix_grow_if_needed: self.__frames += b"\0" * (required_length - len(self.__frames))
copy_mix_at_grown(st, g, err) ==
    IF err \in {"AssertionError", "TypeError"} THEN st ELSE GrownInPlace(st, g.frames)

\* self.__frames = None, then self.__frames = self._mix_join_frames(pre, mixed, post):
\* the slices of a bytearray, and what they are joined to, are bytearrays
copy_mix_at_set(st, r, mutable) ==
    Result(IF r.err = "" THEN Rebound(st, r.s, mutable)
           ELSE IF r.s.nobuf THEN [st EXCEPT !.copy = Object(r.s, 0)]
           ELSE st,
           r.err)

copy_mix_at_from(st, s, start_frame_idx, other_frames, r) ==
    copy_mix_at_set(
        copy_mix_at_grown(st, mix_grow_if_needed(s, start_frame_idx,
                                                 Len(other_frames) * s.sampwidth), r.err),
        r, IsMutable(st))

copy_mix_at_of(st, s, seconds, other, other_seconds) ==
    copy_mix_at_from(st, s, frame_idx(s, seconds), other_frames_of(other, other_seconds),
                     mix_at(s, seconds, other, other_seconds))

copy_mix_at(st, seconds, other, other_seconds) ==
    copy_mix_at_of(st, Deref(st.copy, st.bufs), seconds, other, other_seconds)

\* the Sample objects dup() is called on: made from frames (bytes) or
\* decoded from a WAV file, locked or not, and an instrument as
\* Song.read_samples makes it
NewObjs(s) ==
    [NoObjs EXCEPT !.bufs = <<Buffer(s.frames, FALSE)>>, !.orig = Object(s, 1)]

DupChoices ==
    { NewObjs(s) :
        s \in { Sample(<<3, -4, 5, 6>>), lock(Sample(<<3, -4, 5, 6>>)),
                Sample(<< >>), lock(Sample(<< >>)),
                lock(Loaded(<<7, 8>>, 44100, 2, 4)),
                Loaded(<<10, -20>>, 22050, 1, 2),
                lock(Loaded(<<100, -200, 300, 400>>, 44100, 2, 3)) } }

\* the Samples passed as `other` to mix and mix_at of the copy
DupOtherChoices ==
    { Sample(<<20, 30>>), Sample(<<20, 30, 40, 50, 60, 70>>),
      lock(Loaded(<<-1, -2, 60, 70>>, 44100, 2, 4)) }

\* copy = orig.dup()
DoDup ==
    /\ ~objs.copied
    /\ objs.orig.buf # 0
    /\ objs' = [objs EXCEPT !.copy = dup_object(objs.orig, objs.bufs),
                            !.copied = TRUE,
                            !.kept = Deref(objs.orig, objs.bufs),
                            !.op = "dup"]
    /\ UNCHANGED <<sample_vars, mixer_vars, song_vars, probe>>

\* the call `op` on the copy leaves the objects as st
CopyCalled(op, st) ==
    /\ objs.copied
    /\ objs.n < MaxOps
    /\ objs' = [st EXCEPT !.op = op, !.n = objs.n + 1]
    /\ UNCHANGED <<sample_vars, mixer_vars, song_vars, probe>>

CopyLock == CopyCalled("lock", copy_lock(objs))

CopyAppend ==
    \E seconds \in {Frames(0), Frames(1)} :
        CopyCalled("append", copy_append(objs, seconds))

CopyCut ==
    \E c \in {<<Frames(0), Frames(1)>>, <<Frames(1), Frames(2)>>} :
        CopyCalled("cut", copy_cut(objs, c[1], c[2]))

CopyAmplify == CopyCalled("amplify", copy_amplify(objs, Rat(2, 1)))

CopyNormalize == CopyCalled("normalize", copy_normalize(objs))

CopyMix ==
    \E other \in DupOtherChoices, pad_shortest \in BOOLEAN :
        CopyCalled("mix", copy_mix(objs, other, Frames(0), pad_shortest))

CopyMixAt ==
    \E seconds \in {Frames(0), Frames(1)}, other \in DupOtherChoices :
        CopyCalled("mix_at", copy_mix_at(objs, seconds, other, Frames(0)))

InitDup ==
    /\ objs \in DupChoices
    /\ smp = Sample(<< >>)
    /\ call = NoCall
    /\ nops = 0
    /\ probe = NoProbe
    /\ MixerUnused
    /\ SongUnused

NextDup ==
    \/ DoDup
    \/ CopyLock
    \/ CopyAppend
    \/ CopyCut
    \/ CopyAmplify
    \/ CopyNormalize
    \/ CopyMix
    \/ CopyMixAt

SpecDup == InitDup /\ [][NextDup]_vars

\* ------------------------------------------------------------------------
\* Decoding WAV files
\* ------------------------------------------------------------------------

MaxWidth == 5

MaxChannels == 3

\* the values 1..n
Counting(n) == [i \in 1..n |-> i]

\* WAV files of no or two frames with every width up to MaxWidth bytes and
\* every channel count up to MaxChannels, zero included
WavChoices ==
    { WavFile(Counting(nframes * nchannels), framerate, nchannels, sampwidth) :
        nframes \in {0, 2}, framerate \in {22050, 44100},
        nchannels \in 0..MaxChannels, sampwidth \in 0..MaxWidth }

\* smp = Sample(wave_file=file); when the constructor raises there is no
\* new object and smp stays the object it was
NewFromWav ==
    \E w \in WavChoices :
        Called("Sample",
               IF Sample_from_wav(w).err = "" THEN Sample_from_wav(w)
               ELSE Raise(Sample_from_wav(w).err, smp),
               Frames(0), Frames(0), w, FALSE)

\* smp.load_wav(file)
DoLoadWav ==
    \E w \in WavChoices :
        Called("load_wav", load_wav(smp, w), Frames(0), Frames(0), w, FALSE)

InitWav ==
    /\ smp \in {Sample(<< >>), Sample(<<3, -4, 5, 6>>), lock(Sample(<<3, -4>>))}
    /\ call = NoCall
    /\ nops = 0
    /\ probe = NoProbe
    /\ objs = NoObjs
    /\ MixerUnused
    /\ SongUnused

NextWav ==
    \/ NewFromWav
    \/ DoLoadWav

SpecWav == InitWav /\ [][NextWav]_vars

\* ------------------------------------------------------------------------
\* Properties of the Sample operations
\* ------------------------------------------------------------------------

MutatingOps ==
    {"normalize", "amplify", "amplify_max", "cut", "append", "mix", "mix_at",
     "make_32bit", "make_16bit"}

SameFormat(a, b) ==
    /\ a.sampwidth = b.sampwidth
    /\ a.samplerate = b.samplerate
    /\ a.nchannels = b.nchannels

\* C1: every mutating operation called on a locked Sample raises, and the
\* Sample (buffer, rate, width, channels, lock flag) is the same after the
\* call as before it, whatever calls came before.
C1_LockedRejectsMutation ==
    (call.op \in MutatingOps /\ call.pre.locked) => (call.err # "" /\ smp = call.pre)

\* a locked Sample on which a second mutating call in a row has just failed
C1_Witness ==
    /\ nops >= 2
    /\ call.op \in MutatingOps
    /\ call.pre.locked
    /\ call.pre.frames # << >>
    /\ call.err = "AssertionError"

\* C2: after any sequence of operations the Sample has a buffer whose length
\* in bytes is a whole multiple of nchannels * sampwidth.
C2_WholeFrames ==
    /\ ~smp.nobuf
    /\ BLen(smp) % (smp.nchannels * smp.sampwidth) = 0

\* the old content at sample position j (1-based), zero where the buffer grew
OldAt(pre, j) == IF j <= Len(pre.frames) THEN pre.frames[j] ELSE 0

\* the effect of pre.mix_at(seconds, other) claimed by C10, post the Sample
\* after the call; positions are counted in samples (bytes / sampwidth)
MixAtEffect(pre, post, seconds, other) ==
    LET start == frame_idx(pre, seconds) \div pre.sampwidth
        olen  == Len(other.frames)
    IN  /\ ~post.nobuf
        /\ Len(post.frames) = Max2(Len(pre.frames), start + olen)
        /\ \A j \in 1..Len(post.frames) :
              /\ (j <= start /\ j <= Len(pre.frames)) => post.frames[j] = pre.frames[j]
              /\ (j > start + olen) => post.frames[j] = pre.frames[j]
              /\ (j > start /\ j <= start + olen) =>
                    post.frames[j] = AddClip(OldAt(pre, j), other.frames[j - start],
                                             pre.sampwidth)
        /\ (pre.frames = << >> /\ start = 0) => post.frames = other.frames

\* C10: mix_at(offset, other) on an unlocked Sample of the same format gives
\* a buffer of length max(old length, frame_idx(offset) + len(other)), leaves
\* the bytes before and after the mixed region as they were and makes the
\* region the sample-wise sum; on an empty Sample at offset 0 the result is
\* other's buffer.
C10_MixAtEffect ==
    (/\ call.op = "mix_at"
     /\ ~call.pre.locked
     /\ ~call.pre.nobuf
     /\ SameFormat(call.pre, call.other)
     /\ call.seconds2.n = 0)
    => (call.err = "" /\ MixAtEffect(call.pre, smp, call.seconds, call.other))

\* ------------------------------------------------------------------------
\* Properties of the Mixer operations
\* ------------------------------------------------------------------------

Constructed == pc \in {"idle", "triggers", "samples", "mix"}

\* the generator of mixed_triggers() is running or was the last to run
TriggersRun == pc = "triggers" \/ (pc = "idle" /\ last.op = "triggers")

\* mixed_samples() is running or was the last to run, by itself or in mix()
SamplesRun == pc \in {"samples", "mix"} \/ (pc = "idle" /\ last.op \in {"samples", "mix"})

MixEnded == pc = "idle" /\ last.op = "mix"

\* every instrument is 44100 Hz, stereo, locked and `width` bytes wide
InstrumentsOfWidth(width) ==
    \A name \in DOMAIN mixer.instruments :
        LET s == given[mixer.instruments[name]]
        IN  /\ s.samplerate = 44100
            /\ s.nchannels = 2
            /\ s.sampwidth = width
            /\ s.locked

\* the number of tick positions of a pattern: the length of its bars
RECURSIVE BarLengthFrom(_, _)
BarLengthFrom(pattern, k) ==
    IF k > Len(pattern) THEN 0
    ELSE Max2(Len(pattern[k].bars), BarLengthFrom(pattern, k + 1))

BarLength(pattern) == BarLengthFrom(pattern, 1)

\* all bars of every pattern have one length
EqualBars(patterns) ==
    \A n \in 1..Len(patterns) : \A j, k \in 1..Len(patterns[n]) :
        Len(patterns[n][j].bars) = Len(patterns[n][k].bars)

\* sum over the patterns, from pattern n on, of barLength * 60 / bpm / ticks
RECURSIVE TotalSecondsFrom(_, _)
TotalSecondsFrom(m, n) ==
    IF n > Len(m.patterns) THEN Rat(0, 1)
    ELSE RatAdd(RatNorm(BarLength(m.patterns[n]) * 60, m.bpm * m.ticks),
                TotalSecondsFrom(m, n + 1))

\* the instruments with a character other than period or space at tick i,
\* from bar k on, in the order of the bars
RECURSIVE TickNames(_, _, _)
TickNames(pattern, i, k) ==
    IF k > Len(pattern) THEN << >>
    ELSE (IF i < Len(pattern[k].bars) /\ pattern[k].bars[i + 1] \notin {".", " "}
          THEN <<pattern[k].instrument>> ELSE << >>)
         \o TickNames(pattern, i, k + 1)

\* the ticks that have a trigger, with their global index, from tick i of
\* pattern n on
RECURSIVE TicksFrom(_, _, _, _)
TicksFrom(patterns, n, i, index) ==
    IF n > Len(patterns) THEN << >>
    ELSE IF i >= BarLength(patterns[n]) THEN TicksFrom(patterns, n + 1, 0, index)
    ELSE (IF TickNames(patterns[n], i, 1) # << >>
          THEN <<[index |-> index, names |-> TickNames(patterns[n], i, 1)]>>
          ELSE << >>)
         \o TicksFrom(patterns, n, i + 1, index + 1)

TriggerTicks == TicksFrom(mixer.patterns, 1, 0, 0)

NameSet(names) == { names[k] : k \in 1..Len(names) }

\* C3: mix() on an accepted pattern list returns a Sample whose length is
\* frame_idx(totalSeconds), totalSeconds the sum over the patterns of
\* barLength * 60 / bpm / ticks (instruments in the accumulator's format).
C3_MixLength ==
    (MixEnded /\ InstrumentsOfWidth(4)) =>
        /\ last.err = ""
        /\ BLen(heap[last.result])
             = frame_idx(heap[last.result], TotalSecondsFrom(mixer, 1))

\* C4: in a constructed Mixer every bar has a length that is a positive
\* multiple of ticks; other bars make the constructor raise.
C4_BarsPositiveMultiple ==
    Constructed =>
        \A n \in 1..Len(mixer.patterns) : \A k \in 1..Len(mixer.patterns[n]) :
            /\ Len(mixer.patterns[n][k].bars) > 0
            /\ Len(mixer.patterns[n][k].bars) % mixer.ticks = 0

\* C5: in a constructed Mixer all bars of one pattern have the same length;
\* a pattern with two bars of different lengths makes the constructor raise,
\* in whatever order the bars are.
C5_BarsEqualLength == Constructed => EqualBars(mixer.patterns)

\* C6: mixed_triggers() yields, in order, exactly the ticks at which some bar
\* has a character other than space or period, each with its global tick
\* index (counting every tick position of every pattern from 0), the
\* timestamp index * 60 / bpm / ticks and the instruments triggered there,
\* and it ends without raising.
C6_TriggersEmitted ==
    TriggersRun =>
        /\ Len(run.yields) <= Len(TriggerTicks)
        /\ \A k \in 1..Len(run.yields) :
              /\ run.yields[k].index = TriggerTicks[k].index
              /\ run.yields[k].names = TriggerTicks[k].names
              /\ run.yields[k].timestamp
                   = RatNorm(60 * TriggerTicks[k].index, mixer.bpm * mixer.ticks)
              /\ \A j \in 1..Len(run.yields[k].names) :
                    run.yields[k].samples[j] = mixer.instruments[run.yields[k].names[j]]
        /\ pc = "idle" => (last.err = "" /\ Len(run.yields) = Len(TriggerTicks))

\* C7: within one iteration of mixed_samples() all ticks with the same set
\* of two or more instruments yield one and the same locked Sample object,
\* whatever the order of the bars and the pattern of the tick, and no set of
\* instruments is mixed more than once.
C7_CombinationCached ==
    SamplesRun =>
        /\ \A j, k \in 1..Len(run.yields) :
              (/\ Len(run.yields[j].names) >= 2
               /\ NameSet(run.yields[j].names) = NameSet(run.yields[k].names))
              => run.yields[j].sample = run.yields[k].sample
        /\ \A k \in 1..Len(run.yields) :
              Len(run.yields[k].names) >= 2 => heap[run.yields[k].sample].locked
        /\ \A j, k \in 1..Len(run.mixes) :
              j # k => NameSet(run.mixes[j]) # NameSet(run.mixes[k])

\* the same two instruments have triggered together at two ticks of
\* different patterns, with the bars in different order
C7_Witness ==
    /\ SamplesRun
    /\ \E j, k \in 1..Len(run.yields) :
          /\ run.yields[j].names = <<"a", "b">>
          /\ run.yields[k].names = <<"b", "a">>
          /\ run.yields[j].sample = run.yields[k].sample
    /\ Len(run.mixes) = 1

\* C8: a tick with exactly one trigger yields the instrument table's own
\* Sample object, which is as it was given to the Mixer, with the timestamp
\* index * 60 / bpm / ticks and (where the bars of each pattern agree on the
\* tick positions) the index of that tick.
C8_SingleTrigger ==
    SamplesRun =>
        \A k \in 1..Len(run.yields) :
            Len(run.yields[k].names) = 1 =>
                /\ run.yields[k].sample = mixer.instruments[run.yields[k].names[1]]
                /\ heap[run.yields[k].sample] = given[run.yields[k].sample]
                /\ run.yields[k].timestamp
                     = RatNorm(60 * run.yields[k].index, mixer.bpm * mixer.ticks)
                /\ EqualBars(mixer.patterns) =>
                      \E t \in 1..Len(TriggerTicks) :
                          /\ TriggerTicks[t].index = run.yields[k].index
                          /\ TriggerTicks[t].names = run.yields[k].names

\* a lone trigger was yielded after a tick with two triggers, at a tick
\* index beyond 0
C8_Witness ==
    /\ SamplesRun
    /\ \E j, k \in 1..Len(run.yields) :
          /\ j < k
          /\ Len(run.yields[j].names) = 2
          /\ run.yields[k].names = <<"a">>
          /\ run.yields[k].index > 0
          /\ run.yields[k].sample = mixer.instruments["a"]

\* C9 as stated: with instruments that are normalized (44100 Hz, stereo,
\* 16 bit) and locked, mix() never ends in a format mismatch between the
\* accumulator and an instrument.
C9_Normalized16Renders ==
    (MixEnded /\ InstrumentsOfWidth(2)) => last.err # "AssertionError"

\* C9: with instruments as Song.read_samples makes them (44100 Hz, stereo,
\* 32 bit, locked), mix() never ends in a format mismatch between the
\* accumulator and an instrument.
C9_Loaded32Renders ==
    (MixEnded /\ InstrumentsOfWidth(4)) => last.err \notin {"AssertionError", "audioop.error"}

\* mix() has returned after mixing lone triggers and a combination of 32-bit
\* instruments into the accumulator
C9_Witness ==
    /\ MixEnded
    /\ InstrumentsOfWidth(4)
    /\ last.err = ""
    /\ Len(run.yields) >= 3
    /\ run.mixes # << >>
    /\ heap[last.result].sampwidth = 4
    /\ heap[last.result].frames # << >>

\* ------------------------------------------------------------------------
\* Properties of cut, mix, append and normalize
\* ------------------------------------------------------------------------

\* the samples of `pre` from byte offset frame_idx(start_seconds) up to but
\* not including byte offset frame_idx(end_seconds)
CutExpected(pre, start_seconds, end_seconds) ==
    SubSeq(pre.frames,
           Max2(frame_idx(pre, start_seconds) \div pre.sampwidth, 0) + 1,
           Min2(frame_idx(pre, end_seconds) \div pre.sampwidth, Len(pre.frames)))

\* C11: cut(start, end) with end > start on an unlocked Sample returns and
\* leaves exactly the old buffer from frame_idx(start) up to but not
\* including frame_idx(end), also when frame_idx(end) is the length of the
\* buffer and start > 0.
C11_CutExact ==
    (/\ call.op = "cut"
     /\ ~call.pre.locked
     /\ ~call.pre.nobuf
     /\ RatLess(call.seconds, call.seconds2))
    => (/\ call.err = ""
        /\ ~smp.nobuf
        /\ smp.frames = CutExpected(call.pre, call.seconds, call.seconds2))

\* the sample-wise sum of the buffers a and b over the first n samples
SumOver(a, b, n, width) == [i \in 1..n |-> AddClip(a[i], b[i], width)]

\* C12: mix(other, pad_shortest=False) on two Samples of the same format
\* and of different buffer lengths returns, and the buffer is then the
\* sample-wise sum over the shorter of the two lengths.
C12_MixShortest ==
    (/\ call.op = "mix"
     /\ ~call.flag
     /\ call.seconds2.n = 0
     /\ ~call.pre.locked
     /\ ~call.pre.nobuf
     /\ SameFormat(call.pre, call.other)
     /\ Len(call.pre.frames) # Len(call.other.frames))
    => (/\ call.err = ""
        /\ smp.frames = SumOver(call.pre.frames, call.other.frames,
                                Min2(Len(call.pre.frames), Len(call.other.frames)),
                                call.pre.sampwidth))

BadRangeCall ==
    \/ call.op = "append" /\ call.seconds.n < 0
    \/ call.op = "cut" /\ ~RatLess(call.seconds, call.seconds2)
    \/ call.op = "mix_at" /\ call.seconds.n < 0 /\ SameFormat(call.pre, call.other)

\* C15: append(seconds < 0), cut with end <= start and mix_at at a negative
\* offset raise at the call and leave the Sample's buffer and format as they
\* were; none returns normally or leaves the Sample without a buffer.
C15_BadRangeRaises ==
    (BadRangeCall /\ ~call.pre.locked /\ ~call.pre.nobuf)
    => (call.err # "" /\ smp = call.pre)

\* ------------------------------------------------------------------------
\* Properties of normalize, duration and dup
\* ------------------------------------------------------------------------

\* C17: normalize() is idempotent: after normalize() has returned, the
\* Sample is 44100 Hz, stereo and 16 bit, and a second normalize() returns
\* and leaves its buffer and format as they are.
C17_NormalizeIdempotent ==
    (call.op = "normalize" /\ call.err = "")
    => (/\ smp.samplerate = norm_samplerate
        /\ smp.nchannels = norm_nchannels
        /\ smp.sampwidth = norm_sampwidth
        /\ normalize(smp) = Ok(smp))

\* normalize() has converted the rate, the width or the channels of a Sample
C17_Witness ==
    /\ call.op = "normalize"
    /\ call.err = ""
    /\ ~SameFormat(call.pre, smp)
    /\ smp.frames # << >>

\* C18: for a Sample whose buffer holds a whole number of frames,
\* frame_idx(duration) is the length of the buffer in bytes.
C18_DurationRoundTrip ==
    (/\ probe.op = "frame_idx"
     /\ BLen(smp) % (smp.sampwidth * smp.nchannels) = 0)
    => probe.idx = BLen(smp)

\* ------------------------------------------------------------------------
\* Properties of the song
\* ------------------------------------------------------------------------

\* every pattern name of the sequence is in the pattern table
SequenceDefined ==
    \A k \in 1..Len(song.pattern_sequence) :
        song.pattern_sequence[k] \in DOMAIN song.patterns

\* every instrument named by a pattern of the table is in the instrument table
InstrumentsDefined ==
    \A name \in DOMAIN song.patterns :
        pattern_keys(song.patterns[name]) \subseteq DOMAIN song.instruments

\* C16: after any sequence of load, rec, seq, ticks and bpm commands every
\* pattern name of the song's sequence is in the pattern table and every
\* instrument named by a pattern is in the instrument table, and the
\* construction of a Mixer from the song does not fail with a KeyError.
C16_SongReferences ==
    /\ SequenceDefined
    /\ InstrumentsDefined
    /\ repl.cmd = "mixed_triggers" => repl.err # "KeyError"

\* ------------------------------------------------------------------------
\* Properties of the two-bar scenario
\* ------------------------------------------------------------------------

\* the samples of s that start at tick `index` and last as long as `sound`
TickSound(s, index, sound) ==
    ByteSlice(s, frame_idx(s, timestamp_of(mixer, index)),
              frame_idx(s, timestamp_of(mixer, index)) + BLen(sound))

ScenarioA == given[mixer.instruments["a"]]

ScenarioB == given[mixer.instruments["b"]]

\* what a generator of the scenario has yielded so far is at ticks 0, 2, 3,
\* 5 and 6, in this order, each at index * 60 / 120 / 4 seconds, and with
\* the instruments names[index] at tick `index`
ScenarioYields(names) ==
    \A k \in 1..Len(run.yields) :
        /\ k <= 5
        /\ run.yields[k].index = <<0, 2, 3, 5, 6>>[k]
        /\ run.yields[k].timestamp = RatNorm(run.yields[k].index, 8)
        /\ run.yields[k].names = names[run.yields[k].index]

\* a run of the scenario has ended without an exception after five yields
ScenarioEnded ==
    /\ last.err = ""
    /\ Len(run.yields) = 5

\* mix() of the scenario has returned one second of sound
ScenarioSecond ==
    /\ last.err = ""
    /\ duration(heap[last.result]) = Rat(1, 1)

\* C14: in the scenario the mixed output lasts 1.0 s, triggers are emitted
\* exactly at ticks 0, 2, 3, 5 and 6, and at tick 3 both instruments are
\* triggered and the output is their sum.
C14_ScenarioBothAtTick3 ==
    /\ ScenarioYields([index \in 0..7 |->
                          IF index \in {0, 6} THEN <<"a">>
                          ELSE IF index = 3 THEN <<"a", "b">>
                          ELSE <<"b">>])
    /\ (pc = "idle" /\ last.op \in {"triggers", "samples", "mix"}) => ScenarioEnded
    /\ MixEnded =>
          /\ ScenarioSecond
          /\ TickSound(heap[last.result], 3, ScenarioA)
               = SumOver(ScenarioA.frames, ScenarioB.frames, Len(ScenarioA.frames), 4)

\* C14 (as the code has it): in the scenario the mixed output lasts 1.0 s,
\* triggers are emitted exactly at ticks 0, 2, 3, 5 and 6, the first
\* instrument alone at ticks 0, 3 and 6 and the second alone at ticks 2 and
\* 5; mixed_samples() yields the instrument itself, and the output holds
\* the first instrument at ticks 0, 3 and 6, the second at ticks 2 and 5 and
\* silence at ticks 1, 4 and 7.
C14_ScenarioRendered ==
    /\ ScenarioYields([index \in 0..7 |->
                          IF index \in {0, 3, 6} THEN <<"a">> ELSE <<"b">>])
    /\ (pc = "idle" /\ last.op \in {"triggers", "samples", "mix"}) => ScenarioEnded
    /\ SamplesRun =>
          \A k \in 1..Len(run.yields) :
              run.yields[k].sample = mixer.instruments[run.yields[k].names[1]]
    /\ MixEnded =>
          /\ ScenarioSecond
          /\ \A index \in {0, 3, 6} :
                TickSound(heap[last.result], index, ScenarioA) = ScenarioA.frames
          /\ \A index \in {2, 5} :
                TickSound(heap[last.result], index, ScenarioB) = ScenarioB.frames
          /\ \A index \in {1, 4, 7} :
                TickSound(heap[last.result], index, ScenarioA)
                  = Zeros(Len(ScenarioA.frames))

\* mixed_samples() of the scenario has yielded the sound of tick 3, made of
\* instruments of a tenth of a second
C14_Witness ==
    /\ pc = "samples"
    /\ mixer.patterns = <<ScenarioPattern>>
    /\ duration(ScenarioA) = Rat(1, 10)
    /\ duration(ScenarioB) = Rat(1, 10)
    /\ Len(run.yields) = 3
    /\ run.yields[3].index = 3
    /\ heap[run.yields[3].sample].frames # Zeros(Len(ScenarioA.frames))

\* ------------------------------------------------------------------------
\* Properties of dup
\* ------------------------------------------------------------------------

\* C19: dup() returns an unlocked Sample with the rate, width, channel count
\* and buffer content of the original (locked or not), and whatever
\* mutating operations are then called on the copy, the buffer, the format
\* and the locked flag of the original stay as they were when dup() was
\* called.
C19_DupIndependent ==
    objs.copied =>
        /\ Deref(objs.orig, objs.bufs) = objs.kept
        /\ objs.op = "dup" =>
             /\ ~objs.copy.s.locked
             /\ Deref(objs.copy, objs.bufs) = [objs.kept EXCEPT !.locked = FALSE]

\* the copy of a locked Sample has been appended to and then mixed into,
\* and no longer has the buffer of the original
C19_Witness ==
    /\ objs.copied
    /\ objs.kept.locked
    /\ objs.kept.frames # << >>
    /\ objs.n = 2
    /\ objs.op = "mix_at"
    /\ objs.err = ""
    /\ Len(Deref(objs.copy, objs.bufs).frames) > Len(objs.kept.frames)
    /\ Deref(objs.orig, objs.bufs) = objs.kept

\* ------------------------------------------------------------------------
\* Properties of decoding WAV files
\* ------------------------------------------------------------------------

\* the last call decoded a WAV file, into a new Sample or into an unlocked one
Decoded == call.op \in {"Sample", "load_wav"} /\ ~call.pre.locked

\* C20: decoding a WAV file succeeds exactly when its sample width is 2, 3
\* or 4 bytes and it has 1 or 2 channels, and the Sample then has the frames,
\* rate, channel count and width of the file; with any other width or
\* channel count a format error is raised, no Sample is produced and the
\* Sample decoded into is left as it was.
C20_WavFormats ==
    Decoded =>
        /\ call.err = "" <=> (call.other.sampwidth \in 2..4 /\ call.other.nchannels \in 1..2)
        /\ call.err = "" =>
             smp = Loaded(call.other.frames, call.other.framerate,
                          call.other.nchannels, call.other.sampwidth)
        /\ call.err # "" => call.err \in {"IOError", "wave.Error"} /\ smp = call.pre

\* a Sample decoded from a WAV file of 3 bytes wide samples, which load_wav
\* of a file of 1 byte wide samples then rejected and left as it was
C20_Witness ==
    /\ call.op = "load_wav"
    /\ call.err = "IOError"
    /\ call.other.sampwidth = 1
    /\ call.other.nchannels = 2
    /\ smp = call.pre
    /\ smp.sampwidth = 3
    /\ smp.frames # << >>

\* ------------------------------------------------------------------------
\* Properties of the chords and of what rendering leaves alone
\* ------------------------------------------------------------------------

\* the value at position i of the buffer of heap object o as the Mixer was
\* given it, zero beyond its end
PaddedAt(o, i) == IF i <= Len(given[o].frames) THEN given[o].frames[i] ELSE 0

\* the sum at position i of the buffers of samples[k..], one term for each
\* trigger
RECURSIVE ChordSumAt(_, _, _)
ChordSumAt(samples, k, i) ==
    IF k > Len(samples) THEN 0
    ELSE PaddedAt(samples[k], i) + ChordSumAt(samples, k + 1, i)

\* the length of the longest of the buffers of samples[k..]
RECURSIVE ChordLength(_, _)
ChordLength(samples, k) ==
    IF k > Len(samples) THEN 0
    ELSE Max2(Len(given[samples[k]].frames), ChordLength(samples, k + 1))

\* C21: the Sample mixed_samples() yields for a tick with two or more
\* triggers is locked, as long as the longest triggering instrument, and
\* holds at each position the sum of the buffers of all the triggering
\* instruments, each counted once, also when two instrument names refer to
\* one Sample object.
C21_ChordSum ==
    SamplesRun =>
        \A k \in 1..Len(run.yields) :
            Len(run.yields[k].names) >= 2 =>
                /\ heap[run.yields[k].sample].locked
                /\ Len(heap[run.yields[k].sample].frames)
                     = ChordLength(run.yields[k].samples, 1)
                /\ \A i \in 1..ChordLength(run.yields[k].samples, 1) :
                      heap[run.yields[k].sample].frames[i]
                        = ChordSumAt(run.yields[k].samples, 1, i)

\* an operation on the Mixer has ended
RenderEnded == pc = "idle" /\ last.op \in {"triggers", "samples", "mix"}

\* C22: on a Mixer whose constructor accepted the patterns (patterns
\* without instruments or with bars of length zero included), and with
\* instruments in the format of the accumulator, mixed_triggers(),
\* mixed_samples() and mix() run to their end without raising.
C22_ConstructedRenders ==
    (RenderEnded /\ InstrumentsOfWidth(4)) => last.err = ""

\* C23: rendering writes to the accumulator of mix() only: through every
\* step of mixed_samples() and mix() each instrument Sample, and each Sample
\* once it is in the combination cache, keeps its buffer, its format and
\* its locked flag.
C23_RenderKeeps ==
    [][\A i \in 1..Len(heap) : i # run.acc => heap'[i] = heap[i]]_vars

\* mix() has returned on its second run after a combination was mixed,
\* cached and yielded again from the cache, and the instruments are as
\* they were given
C23_Witness ==
    /\ MixEnded
    /\ last.err = ""
    /\ nruns = 2
    /\ Len(run.mixes) = 1
    /\ \E j, k \in 1..Len(run.yields) :
          /\ j < k
          /\ Len(run.yields[j].names) >= 2
          /\ run.yields[j].sample = run.yields[k].sample
    /\ \A i \in 1..Len(given) : heap[i] = given[i]
    /\ heap[last.result].frames # << >>

====
